---- MODULE Spec2Model ----
(***************************************************************************)
(* Release orchestration of ssl-hep/ci-tools: release_tool.py + ghlib.py.  *)
(*                                                                         *)
(* Spec         the tag pipeline (check_repos, tag_repos, ghlib.tag_repo)  *)
(*              entered either through the `tag` command or through a      *)
(*              direct call of ghlib.tag_repo on one record.               *)
(* SpecMonitor  the polling loop of monitor_workflows with                 *)
(*              generate_table and ghlib.workflows_complete.               *)
(*                                                                         *)
(* Python strings whose content the code inspects or builds (token, tag,   *)
(* operator answer) are sequences of one-character strings.  Every HTTP    *)
(* exchange is one step: the status (and body) the host answers is an      *)
(* input of the step.                                                      *)
(***************************************************************************)
EXTENDS Integers, Sequences, FiniteSets, TLC

VARIABLES
  entry,      \* which function the run was entered through
  pc,         \* position of the (single-threaded) program
  idx,        \* index of the record the current loop is at
  token,      \* the GitHub token handed through the pipeline
  now,        \* per record: the clock value generate_calver read for it
  repos,      \* list[RepoInfo]
  log,        \* every HTTP request issued so far, with the answer
  hostTags,   \* tag objects that exist on the host
  hostRefs,   \* refs that exist on the host
  checkRet,   \* return values of the check_repos calls made so far
  answers,    \* operator answers read by get_confirmation so far
  shown,      \* rows printed by get_confirmation
  checked,    \* per record: the preconditions tag_repo has evaluated
  publishRet, \* per record: what tag_repo returned ("none" = not returned)
  tag_sha,    \* local of tag_repo: sha of the tag object just created
  exitCode,   \* "none" while running, else the process exit code
  selector,      \* monitor_workflows: "tag", "time" or "none" (neither given)
  workflow_info, \* monitor_workflows: per repository the list of run URLs
  mpc,           \* position of monitor_workflows
  cursor,        \* index of the repository or run the current loop is at
  completed,     \* local `completed` of workflows_complete
  seen,          \* answers read by the current or last workflows_complete call
  verdicts,      \* return values of the workflows_complete calls so far
  last_fetch,    \* outcome of the last get_workflow_status call
  sleeps,        \* number of time.sleep(30) calls so far
  list_queries,  \* the discovery list queries sent: repository and status answered
  unexpected,    \* kinds of per-run requests answered with a status other than 200/404
  settled,       \* host: every tracked run has reached a terminal conclusion for good
  registry,   \* host: per record the status the container registry answers
  vtag,       \* verify_containers: the --tag argument
  round,      \* which invocation of verify_containers this is
  verRet,     \* outcome of each finished invocation of verify_containers
  done,       \* release: the steps taken so far, each with its result
  pushed,     \* remotes that have received a push
  temp_dir,   \* the scratch directory of release: "none", "exists" or "removed"
  config,     \* the records as the configuration file gave them
  fs,         \* manifest mutation: what each path of the chart directory holds
  values,     \* manifest mutation: the document loaded into memory
  orig,       \* manifest mutation: the document the file held at the call
  stages,     \* command: the stages run so far, each with its outcome
  approved,   \* command: the operator approved the chart publish
  options     \* command: the command line (command, --verify, --publish)

tagVars == <<entry, pc, idx, token, now, repos, log, hostTags, hostRefs,
             checkRet, answers, shown, checked, publishRet, tag_sha, exitCode>>

monVars == <<selector, workflow_info, mpc, cursor, completed, seen, verdicts,
             last_fetch, sleeps, list_queries, unexpected, settled>>

verVars == <<registry, vtag, round, verRet>>

relVars == <<done, pushed, temp_dir>>

manVars == <<fs, values, orig>>

cmdVars == <<stages, approved, options>>

extVars == <<config, manVars, cmdVars>>

vars == <<entry, pc, idx, token, now, repos, log, hostTags, hostRefs,
          checkRet, answers, shown, checked, publishRet, tag_sha, exitCode,
          selector, workflow_info, mpc, cursor, completed, seen, verdicts,
          last_fetch, sleeps, list_queries, unexpected, settled,
          registry, vtag, round, verRet, done, pushed, temp_dir,
          config, fs, values, orig, stages, approved, options>>

----------------------------------------------------------------------------
(* Bounds *)

MaxRepos == 2

\* most runs the discovery answers hold altogether
MaxTracked == 3

\* most sleeps of the polling loop that are followed
MaxSleeps == 2

----------------------------------------------------------------------------
(* Strings *)

startswith(s, prefix) ==
  /\ Len(s) >= Len(prefix)
  /\ SubSeq(s, 1, Len(prefix)) = prefix

LowerChar(c) == IF c = "Y" THEN "y" ELSE IF c = "N" THEN "n" ELSE c

lower(s) == [k \in 1..Len(s) |-> LowerChar(s[k])]

Digit(d) ==
  CASE d = 0 -> "0" [] d = 1 -> "1" [] d = 2 -> "2" [] d = 3 -> "3"
    [] d = 4 -> "4" [] d = 5 -> "5" [] d = 6 -> "6" [] d = 7 -> "7"
    [] d = 8 -> "8" [] d = 9 -> "9"

RECURSIVE Decimal(_)
Decimal(n) == IF n < 10 THEN <<Digit(n)>>
              ELSE Decimal(n \div 10) \o <<Digit(n % 10)>>

RECURSIVE Zeros(_)
Zeros(k) == IF k <= 0 THEN <<>> ELSE <<"0">> \o Zeros(k - 1)

\* f"{n:0w}": at least w characters, padded with zeros on the left
Pad(n, w) == Zeros(w - Len(Decimal(n))) \o Decimal(n)

----------------------------------------------------------------------------
(* Inputs: what the configuration, the operator and the host can supply *)

RepoName(i) ==
  CASE i = 1 -> "repo1" [] i = 2 -> "repo2" [] i = 3 -> "repo3" [] OTHER -> "repo4"

\* repoinfo.RepoInfo as util.ingest_config builds it
RepoInfo(name, branch, label, tagtype, semver, commit) ==
  [name |-> name, branch |-> branch, label |-> label, tagtype |-> tagtype,
   semver |-> semver, tag |-> <<>>, commit |-> commit,
   container_repo |-> "", container_registry |-> ""]

\* the sections a configuration file can hold for one repository
ConfigOf(i) ==
  { RepoInfo(RepoName(i), "develop", <<"d", "e", "v">>, "calver", <<>>, ""),
    RepoInfo(RepoName(i), "release", <<"r", "e", "l">>, "semver", <<"1", ".", "2">>, ""),
    RepoInfo(RepoName(i), "", <<"d", "e", "v">>, "calver", <<>>, ""),
    RepoInfo(RepoName(i), "develop", <<"d", "e", "v">>, "calver", <<>>, "c0") }

\* the sections a configuration file can hold before ingest_config has
\* looked at them: the tag type can be any string
RawConfigOf(i) ==
  ConfigOf(i) \cup
    { RepoInfo(RepoName(i), "develop", <<"d", "e", "v">>, "other", <<>>, "") }

\* records a caller can hand to ghlib.tag_repo directly
PublishRecords ==
  { [r EXCEPT !.commit = c, !.tag = t] :
      r \in ConfigOf(1), c \in {"", "c0", "c1"},
      t \in { <<"1", ".", "2", "-", "r", "e", "l">>, <<"t">> } }

Tokens == { <<>>, <<"g", "h">>, <<"g", "h", "o", "_", "a">>, <<"g", "h", "p", "_", "a">> }

\* time.gmtime() readings, in the order in which the clock passes them
Clocks == << [tm_year |-> 2022, tm_mon |-> 2, tm_mday |-> 16, tm_hour |-> 9, tm_min |-> 18],
             [tm_year |-> 2022, tm_mon |-> 12, tm_mday |-> 1, tm_hour |-> 23, tm_min |-> 5] >>

Answers == { <<>>, <<"y">>, <<"Y">>, <<"n">>, <<" ", "y">> }

RootStatuses == {200, 401}
BranchStatuses == {200, 404, 500}
CommitStatuses == {200, 404, 422, 500}
PostStatuses == {200, 201, 404, 422, 500}
Shas == {"c1", "c2"}
TagShas == {"t1", "t2"}

Req(op, repo, status, req, resp) ==
  [op |-> op, repo |-> repo, status |-> status, req |-> req, resp |-> resp]

----------------------------------------------------------------------------
(* The functions of ghlib.py and release_tool.py *)

valid_gh_token_AnyToken(tok, st) ==
  IF tok # <<>>
  THEN [ok |-> (st = 200), sent |-> TRUE]
  ELSE [ok |-> FALSE, sent |-> FALSE]

\* ghlib.valid_gh_token(token, query=True); st is the answer of GET api.github.com
valid_gh_token(tok, st) ==
  IF tok # <<>> /\ startswith(tok, <<"g", "h", "p">>)
  THEN [ok |-> (st = 200), sent |-> TRUE]
  ELSE [ok |-> FALSE, sent |-> FALSE]

generate_calver_NoPad(date) ==
  Decimal(date.tm_year) \o Decimal(date.tm_mon) \o Decimal(date.tm_mday) \o <<"-">>
    \o Decimal(date.tm_hour) \o Decimal(date.tm_min)

\* util.generate_calver
generate_calver(date) ==
  Pad(date.tm_year, 4) \o Pad(date.tm_mon, 2) \o Pad(date.tm_mday, 2) \o <<"-">>
    \o Pad(date.tm_hour, 2) \o Pad(date.tm_min, 2)

\* release_tool.generate_tag
generate_tag(repo, date) ==
  CASE repo.tagtype = "calver" -> generate_calver(date) \o <<"-">> \o repo.label
    [] repo.tagtype = "semver" -> repo.semver \o <<"-">> \o repo.label
    [] OTHER -> <<>>

get_confirmation_DefaultYes(resp) == lower(resp) # <<"n">>

\* release_tool.get_confirmation: the decision taken on the operator's answer
get_confirmation(resp) == lower(resp) = <<"y">>

update_branch_config_OtherIsAbsent(repo_config, st, sha) ==
  IF repo_config.branch = ""
  THEN [ret |-> "fatal", repo |-> repo_config, sent |-> FALSE]
  ELSE CASE st = 200 -> [ret |-> "true",
                         repo |-> [repo_config EXCEPT !.commit = sha],
                         sent |-> TRUE]
         [] OTHER -> [ret |-> "false", repo |-> repo_config, sent |-> TRUE]

\* release_tool.update_branch_config; st, sha: answer of GET /branches/{branch}
update_branch_config(repo_config, st, sha) ==
  IF repo_config.branch = ""
  THEN [ret |-> "fatal", repo |-> repo_config, sent |-> FALSE]
  ELSE CASE st = 404 -> [ret |-> "false", repo |-> repo_config, sent |-> TRUE]
         [] st = 200 -> [ret |-> "true",
                         repo |-> [repo_config EXCEPT !.commit = sha],
                         sent |-> TRUE]
         [] OTHER -> [ret |-> "fatal", repo |-> repo_config, sent |-> TRUE]

check_repos_step_BestEffort(ret) ==
  CASE ret = "true" -> "continue"
    [] ret = "false" -> "continue"
    [] OTHER -> "exit"

\* release_tool.check_repos: what the loop does with one record's result
check_repos_step(ret) ==
  CASE ret = "true" -> "continue"
    [] ret = "false" -> "return_false"
    [] OTHER -> "exit"

verify_commit_No422(commit, st) ==
  IF commit = ""
  THEN [ret |-> "false", sent |-> FALSE]
  ELSE CASE st = 404 -> [ret |-> "false", sent |-> TRUE]
         [] st = 200 -> [ret |-> "true", sent |-> TRUE]
         [] OTHER -> [ret |-> "fatal", sent |-> TRUE]

\* ghlib.verify_commit; st: answer of GET /commits/{commit}
verify_commit(commit, st) ==
  IF commit = ""
  THEN [ret |-> "false", sent |-> FALSE]
  ELSE CASE st = 404 -> [ret |-> "false", sent |-> TRUE]
         [] st = 422 -> [ret |-> "false", sent |-> TRUE]
         [] st = 200 -> [ret |-> "true", sent |-> TRUE]
         [] OTHER -> [ret |-> "fatal", sent |-> TRUE]

TagPayload_BranchName(repo_config) ==
  [owner |-> "ssl-hep", repo |-> repo_config.name, tag |-> repo_config.tag,
   object |-> repo_config.branch, type |-> "commit"]

\* ghlib.tag_repo: body of the POST to /git/tags
TagPayload(repo_config) ==
  [owner |-> "ssl-hep", repo |-> repo_config.name, tag |-> repo_config.tag,
   object |-> repo_config.commit, type |-> "commit"]

RefPayload_CommitSha(repo_config, sha) ==
  [ref |-> <<"r", "e", "f", "s", "/", "t", "a", "g", "s", "/">> \o repo_config.tag,
   sha |-> repo_config.commit]

\* ghlib.tag_repo: body of the POST to /git/refs
RefPayload(repo_config, sha) ==
  [ref |-> <<"r", "e", "f", "s", "/", "t", "a", "g", "s", "/">> \o repo_config.tag,
   sha |-> sha]

TagPostFailed_Any2xx(st) == st \notin {200, 201}

\* ghlib.tag_repo: r.status_code != 201 after the POST to /git/tags
TagPostFailed(st) == st # 201

\* ghlib.tag_repo: r.status_code != 201 after the POST to /git/refs
RefPostFailed(st) == st # 201

AfterRefFailure_Retry == "tag_repo_post_ref"

\* ghlib.tag_repo: where control goes when the ref POST failed (error() aborts)
AfterRefFailure == "exit"

\* repoinfo.generate_repo_url
generate_repo_url(repo_config) ==
  <<"https://api.github.com", "/repos/", "ssl-hep", "/", repo_config.name>>

----------------------------------------------------------------------------
(* The tag pipeline: release_tool.tag -> check_repos -> tag_repos ->       *)
(* ghlib.tag_repo                                                          *)

\* verify_containers has not been invoked
VerifyIdle ==
  /\ registry = <<>>
  /\ vtag = <<>>
  /\ round = 0
  /\ verRet = <<>>

\* release has not been invoked
ReleaseIdle ==
  /\ done = <<>>
  /\ pushed = {}
  /\ temp_dir = "none"

\* no manifest is being rewritten
ManifestIdle ==
  /\ fs = <<>>
  /\ values = "none"
  /\ orig = "none"

\* the run is not followed at the level of the command
CommandIdle ==
  /\ stages = <<>>
  /\ approved = FALSE
  /\ options = "none"

\* monitor_workflows has not been invoked
MonitorIdle ==
  /\ selector = "none"
  /\ workflow_info = <<>>
  /\ mpc = "idle"
  /\ cursor = 1
  /\ completed = TRUE
  /\ seen = <<>>
  /\ verdicts = <<>>
  /\ last_fetch = "none"
  /\ sleeps = 0
  /\ list_queries = <<>>
  /\ unexpected = {}
  /\ settled = FALSE

ConfigLists ==
  UNION { { f \in [1..n -> UNION { ConfigOf(i) : i \in 1..n }] :
              \A i \in 1..n : f[i] \in ConfigOf(i) } : n \in 1..MaxRepos }

\* the files util.ingest_config can be given
RawConfigLists ==
  UNION { { f \in [1..n -> UNION { RawConfigOf(i) : i \in 1..n }] :
              \A i \in 1..n : f[i] \in RawConfigOf(i) } : n \in 1..MaxRepos }

ingest_config_valid_Any(section) == TRUE

\* util.ingest_config, lines 53-56: the tag type a section may carry
ingest_config_valid(section) == section.tagtype \in {"semver", "calver"}

Init ==
  /\ entry \in {"tag", "tag_repo"}
  /\ token \in Tokens
  /\ IF entry = "tag"
     THEN repos \in RawConfigLists /\ pc = "ingest_config"
     ELSE repos \in { <<r>> : r \in PublishRecords } /\ pc = "tag_repo_token"
  /\ idx = 1
  /\ now = <<>>
  /\ log = <<>>
  /\ hostTags = {}
  /\ hostRefs = {}
  /\ checkRet = <<>>
  /\ answers = <<>>
  /\ shown = <<>>
  /\ checked = [i \in 1..Len(repos) |-> <<>>]
  /\ publishRet = [i \in 1..Len(repos) |-> "none"]
  /\ tag_sha = ""
  /\ exitCode = "none"
  /\ MonitorIdle
  /\ VerifyIdle
  /\ ReleaseIdle
  /\ config = repos
  /\ ManifestIdle
  /\ CommandIdle

\* error_handling.error(..., abort=True): sys.exit(1)
Abort == pc' = "exit" /\ exitCode' = 1

\* one iteration of the loop of release_tool.check_repos, called at `at`;
\* `caller_aborts`: the caller calls error() when check_repos returns False
CheckReposPass(at, after, caller_aborts) ==
  /\ pc = at
  /\ UNCHANGED <<monVars, verVars, relVars, extVars>>
  /\ \E st \in BranchStatuses, sha \in Shas :
       LET u == update_branch_config(repos[idx], st, sha)
           step == check_repos_step(u.ret)
       IN /\ repos' = [repos EXCEPT ![idx] = u.repo]
          /\ log' = IF u.sent
                    THEN Append(log, Req("GET_branch", repos[idx].name, st,
                                         [branch |-> repos[idx].branch,
                                          call |-> Len(checkRet) + 1],
                                         [sha |-> sha]))
                    ELSE log
          /\ CASE step = "exit" -> Abort /\ UNCHANGED <<idx, checkRet>>
               [] step = "return_false" ->
                    /\ checkRet' = Append(checkRet, FALSE)
                    /\ IF caller_aborts
                       THEN Abort /\ UNCHANGED idx
                       ELSE pc' = after /\ idx' = 1 /\ UNCHANGED exitCode
               [] step = "continue" ->
                    IF idx < Len(repos)
                    THEN idx' = idx + 1 /\ UNCHANGED <<pc, checkRet, exitCode>>
                    ELSE /\ checkRet' = Append(checkRet, TRUE)
                         /\ pc' = after /\ idx' = 1 /\ UNCHANGED exitCode
  /\ UNCHANGED <<entry, token, now, hostTags, hostRefs, answers, shown,
                 checked, publishRet, tag_sha>>

\* release_tool.entry -> get_config -> util.ingest_config: a section whose tag
\* type is not semver or calver makes error() end the process; otherwise the
\* records go to the command
IngestConfig ==
  /\ entry = "tag"
  /\ pc = "ingest_config"
  /\ IF \A i \in 1..Len(repos) : ingest_config_valid(repos[i])
     THEN pc' = "check_repos" /\ UNCHANGED exitCode
     ELSE Abort
  /\ UNCHANGED <<entry, idx, token, now, repos, log, hostTags, hostRefs, checkRet,
                 answers, shown, checked, publishRet, tag_sha>>
  /\ UNCHANGED <<monVars, verVars, relVars, extVars>>

\* release_tool.tag: if not check_repos(...): error(...)
CheckRepos ==
  /\ entry = "tag"
  /\ CheckReposPass("check_repos", "tag_repos_check", TRUE)

\* release_tool.tag_repos: check_repos(...) with the result dropped
TagReposCheck ==
  /\ entry = "tag"
  /\ CheckReposPass("tag_repos_check", "generate_repo_tags", FALSE)

\* release_tool.generate_repo_tags: every record gets its tag; each calver
\* record reads the clock once, a semver record does not read it
GenerateRepoTags ==
  /\ pc = "generate_repo_tags"
  /\ UNCHANGED <<monVars, verVars, relVars, extVars>>
  /\ \E ts \in [1..Len(repos) -> 0..Len(Clocks)] :
       /\ \A i \in 1..Len(repos) : ts[i] = 0 <=> repos[i].tagtype # "calver"
       /\ \A i, j \in 1..Len(repos) : (i <= j /\ ts[i] > 0 /\ ts[j] > 0) => ts[i] <= ts[j]
       /\ now' = [i \in 1..Len(repos) |-> IF ts[i] = 0 THEN "unread" ELSE Clocks[ts[i]]]
       /\ repos' = [i \in 1..Len(repos) |->
                      [repos[i] EXCEPT !.tag =
                         generate_tag(repos[i], IF ts[i] = 0 THEN Clocks[1] ELSE Clocks[ts[i]])]]
  /\ pc' = "get_confirmation"
  /\ UNCHANGED <<entry, idx, token, log, hostTags, hostRefs, checkRet, answers,
                 shown, checked, publishRet, tag_sha, exitCode>>

\* release_tool.get_confirmation and the test of its result in tag_repos
GetConfirmation ==
  /\ pc = "get_confirmation"
  /\ UNCHANGED <<monVars, verVars, relVars, extVars>>
  /\ \E resp \in Answers :
       /\ answers' = Append(answers, resp)
       /\ shown' = Append(shown, [i \in 1..Len(repos) |->
                            <<repos[i].name, generate_repo_url(repos[i]), repos[i].tag>>])
       /\ IF get_confirmation(resp)
          THEN pc' = "tag_repo_token" /\ idx' = 1 /\ UNCHANGED exitCode
          ELSE Abort /\ UNCHANGED idx
  /\ UNCHANGED <<entry, token, now, repos, log, hostTags, hostRefs, checkRet,
                 checked, publishRet, tag_sha>>

TagRepoReturns_SkipFailed(val) ==
  /\ publishRet' = [publishRet EXCEPT ![idx] = IF val THEN "true" ELSE "false"]
  /\ IF entry = "tag_repo"
     THEN pc' = "returned" /\ UNCHANGED <<idx, exitCode>>
     ELSE IF idx < Len(repos)
          THEN pc' = "tag_repo_token" /\ idx' = idx + 1 /\ UNCHANGED exitCode
          ELSE pc' = "tagged" /\ UNCHANGED <<idx, exitCode>>

\* ghlib.tag_repo returns `val`; in tag_repos a False makes error() abort
TagRepoReturns(val) ==
  /\ publishRet' = [publishRet EXCEPT ![idx] = IF val THEN "true" ELSE "false"]
  /\ IF entry = "tag_repo"
     THEN pc' = "returned" /\ UNCHANGED <<idx, exitCode>>
     ELSE IF ~val
          THEN Abort /\ UNCHANGED idx
          ELSE IF idx < Len(repos)
               THEN pc' = "tag_repo_token" /\ idx' = idx + 1 /\ UNCHANGED exitCode
               ELSE pc' = "tagged" /\ UNCHANGED <<idx, exitCode>>

\* ghlib.tag_repo, lines 92-98: token check, then commit presence
TagRepoToken ==
  /\ pc = "tag_repo_token"
  /\ UNCHANGED <<monVars, verVars, relVars, extVars>>
  /\ \E st \in RootStatuses :
       LET v == valid_gh_token(token, st)
       IN /\ log' = IF v.sent
                    THEN Append(log, Req("GET_root", repos[idx].name, st, <<>>, <<>>))
                    ELSE log
          /\ IF ~v.ok
             THEN /\ checked' = [checked EXCEPT ![idx] = <<"token">>]
                  /\ TagRepoReturns(FALSE)
             ELSE /\ checked' = [checked EXCEPT ![idx] = <<"token", "commit">>]
                  /\ IF repos[idx].commit = ""
                     THEN TagRepoReturns(FALSE)
                     ELSE pc' = "tag_repo_verify"
                          /\ UNCHANGED <<idx, publishRet, exitCode>>
  /\ UNCHANGED <<entry, token, now, repos, hostTags, hostRefs, checkRet, answers,
                 shown, tag_sha>>

\* ghlib.tag_repo, lines 99-101: verify_commit
TagRepoVerify ==
  /\ pc = "tag_repo_verify"
  /\ UNCHANGED <<monVars, verVars, relVars, extVars>>
  /\ \E st \in CommitStatuses :
       LET v == verify_commit(repos[idx].commit, st)
       IN /\ log' = IF v.sent
                    THEN Append(log, Req("GET_commit", repos[idx].name, st,
                                         [commit |-> repos[idx].commit], <<>>))
                    ELSE log
          /\ checked' = [checked EXCEPT ![idx] = Append(@, "verify")]
          /\ CASE v.ret = "true" -> pc' = "tag_repo_post_tag"
                                    /\ UNCHANGED <<idx, publishRet, exitCode>>
               [] v.ret = "false" -> TagRepoReturns(FALSE)
               [] OTHER -> Abort /\ UNCHANGED <<idx, publishRet>>
  /\ UNCHANGED <<entry, token, now, repos, hostTags, hostRefs, checkRet, answers,
                 shown, tag_sha>>

\* ghlib.tag_repo, lines 102-124: POST /git/tags; the host creates the tag
\* object exactly when it answers 201
TagRepoPostTag ==
  /\ pc = "tag_repo_post_tag"
  /\ UNCHANGED <<monVars, verVars, relVars, extVars>>
  /\ \E st \in PostStatuses, sha \in TagShas :
       LET body == TagPayload(repos[idx])
       IN /\ log' = Append(log, Req("POST_tag", repos[idx].name, st, body,
                                    [sha |-> IF st = 201 THEN sha ELSE ""]))
          /\ hostTags' = IF st = 201
                         THEN hostTags \cup {[repo |-> body.repo, tag |-> body.tag,
                                              object |-> body.object, sha |-> sha]}
                         ELSE hostTags
          /\ IF TagPostFailed(st)
             THEN Abort /\ UNCHANGED tag_sha
             ELSE pc' = "tag_repo_post_ref" /\ tag_sha' = sha /\ UNCHANGED exitCode
  /\ UNCHANGED <<entry, idx, token, now, repos, hostRefs, checkRet, answers,
                 shown, checked, publishRet>>

\* ghlib.tag_repo, lines 125-133: POST /git/refs
TagRepoPostRef ==
  /\ pc = "tag_repo_post_ref"
  /\ UNCHANGED <<monVars, verVars, relVars, extVars>>
  /\ \E st \in PostStatuses :
       LET body == RefPayload(repos[idx], tag_sha)
       IN /\ log' = Append(log, Req("POST_ref", repos[idx].name, st, body, <<>>))
          /\ hostRefs' = IF st = 201
                         THEN hostRefs \cup {[repo |-> repos[idx].name,
                                              ref |-> body.ref, sha |-> body.sha]}
                         ELSE hostRefs
          /\ IF RefPostFailed(st)
             THEN /\ pc' = AfterRefFailure
                  /\ exitCode' = IF AfterRefFailure = "exit" THEN 1 ELSE exitCode
                  /\ UNCHANGED <<idx, publishRet>>
             ELSE TagRepoReturns(TRUE)
  /\ UNCHANGED <<entry, token, now, repos, hostTags, checkRet, answers, shown,
                 checked, tag_sha>>

Next ==
  \/ IngestConfig
  \/ CheckRepos
  \/ TagReposCheck
  \/ GenerateRepoTags
  \/ GetConfirmation
  \/ TagRepoToken
  \/ TagRepoVerify
  \/ TagRepoPostTag
  \/ TagRepoPostRef

Spec == Init /\ [][Next]_vars

----------------------------------------------------------------------------
(* Properties of the tag pipeline *)

Indices(op, name) == { k \in 1..Len(log) : log[k].op = op /\ log[k].repo = name }

Posts(name) == SelectSeq(log, LAMBDA e : e.repo = name /\ e.op \in {"POST_tag", "POST_ref"})

Fatal == pc = "exit" /\ exitCode = 1

\* C1: when the POST to /git/tags of a record is answered with any status
\* other than 201, no POST to /git/refs is ever issued for that record
C1_NoRefAfterFailedTag ==
  \A k \in 1..Len(log) :
    (log[k].op = "POST_tag" /\ log[k].status # 201)
      => Cardinality(Indices("POST_ref", log[k].repo)) = 0

C1_Witness ==
  /\ pc = "exit"
  /\ \E k \in 1..Len(log) : log[k].op = "POST_tag" /\ log[k].status = 200

\* C2: tag_repo checks token, then commit presence, then verify_commit; the
\* first one that fails makes it return False, none of the later ones is
\* evaluated and neither POST is issued for the record
C2_PreconditionsInOrder ==
  \A i \in 1..Len(repos) :
    LET name == repos[i].name
        bad_token == ~startswith(token, <<"g", "h", "p">>)
        no_commit == repos[i].commit = ""
        not_found == \E k \in Indices("GET_commit", name) : log[k].status \in {404, 422}
        stopped(at) == /\ checked[i] = at
                       /\ publishRet[i] = "false"
                       /\ Posts(name) = <<>>
    IN /\ checked[i] \in { <<>>, <<"token">>, <<"token", "commit">>,
                           <<"token", "commit", "verify">> }
       /\ (checked[i] # <<>> /\ bad_token) =>
             stopped(<<"token">>) /\ Indices("GET_commit", name) = {}
       /\ (Len(checked[i]) >= 2 /\ no_commit) =>
             stopped(<<"token", "commit">>) /\ Indices("GET_commit", name) = {}
       /\ not_found => stopped(<<"token", "commit", "verify">>)
       /\ Posts(name) # <<>> =>
             /\ ~bad_token /\ ~no_commit
             /\ \E k \in Indices("GET_commit", name) : log[k].status = 200

C2_Witness ==
  /\ entry = "tag_repo"
  /\ startswith(token, <<"g", "h", "p">>)
  /\ repos[1].commit = ""
  /\ checked[1] = <<"token", "commit">>
  /\ publishRet[1] = "false"

Declined(resp) == resp \notin { <<"y">>, <<"Y">> }

\* C3: in the tag command the operator is asked once, for all records, before
\* anything is published; when the answer is not yes the process stops and no
\* POST is issued for any record
C3_OperatorGate ==
  entry = "tag" =>
    /\ Len(answers) <= 1
    /\ Len(shown) = Len(answers)
    /\ \A k \in 1..Len(log) :
         log[k].op \in {"GET_root", "GET_commit", "POST_tag", "POST_ref"}
           => Len(answers) = 1 /\ ~Declined(answers[1])
    /\ Len(answers) = 1 =>
         /\ Len(shown[1]) = Len(repos)
         /\ \A i \in 1..Len(repos) :
              shown[1][i][1] = repos[i].name /\ shown[1][i][3] = repos[i].tag
         /\ Declined(answers[1]) =>
              /\ Fatal
              /\ \A k \in 1..Len(log) : log[k].op \notin {"POST_tag", "POST_ref"}

C3_Witness ==
  /\ entry = "tag"
  /\ Len(repos) = 2
  /\ answers = << <<>> >>
  /\ Fatal

RefName(tag) == <<"r", "e", "f", "s", "/", "t", "a", "g", "s", "/">> \o tag

\* C4: tag_repo returns True for a record exactly when its requests were the
\* POST to /git/tags carrying the record's tag and commit, answered 201, and
\* then the POST to /git/refs for refs/tags/{tag} with the sha of that tag
\* object, answered 201
C4_SuccessIffBothCreated ==
  \A i \in 1..Len(repos) :
    LET ps == Posts(repos[i].name)
    IN publishRet[i] = "true" <=>
         /\ Len(ps) = 2
         /\ ps[1].op = "POST_tag" /\ ps[1].status = 201
         /\ ps[1].req.tag = repos[i].tag /\ ps[1].req.object = repos[i].commit
         /\ ps[2].op = "POST_ref" /\ ps[2].status = 201
         /\ ps[2].req.ref = RefName(repos[i].tag)
         /\ ps[2].req.sha = ps[1].resp.sha

C4_Witness ==
  /\ entry = "tag"
  /\ Len(repos) = 2
  /\ publishRet[1] = "true" /\ publishRet[2] = "true"
  /\ pc = "tagged"

\* C5: when the tag object was created (201) and the ref POST failed, the tag
\* object stays on the host with no ref to it, and the failed ref POST is the
\* last request the program issues
C5_OrphanNotCompensated ==
  \A k \in 1..Len(log) :
    (log[k].op = "POST_ref" /\ log[k].status # 201) =>
      /\ k = Len(log)
      /\ Fatal
      /\ \E t \in hostTags : t.repo = log[k].repo /\ t.sha = log[k].req.sha
      /\ \A r \in hostRefs : ~(r.repo = log[k].repo /\ r.sha = log[k].req.sha)
      /\ Cardinality(Indices("POST_tag", log[k].repo)) = 1
      /\ Cardinality(Indices("POST_ref", log[k].repo)) = 1

C5_Witness ==
  /\ Len(log) > 0
  /\ log[Len(log)].op = "POST_ref" /\ log[Len(log)].status = 500
  /\ hostTags # {}
  /\ hostRefs = {}

\* C6: update_branch_config: on 404 it returns False and leaves the record as
\* it was; on 200 it returns True and sets commit to the sha of the answer; on
\* any other status the process terminates
C6_ResolveBranch ==
  [][ (pc \in {"check_repos", "tag_repos_check"} /\ Len(log') = Len(log) + 1) =>
        LET e == log'[Len(log')]
        IN CASE e.status = 404 ->
                  /\ repos' = repos
                  /\ checkRet' = Append(checkRet, FALSE)
             [] e.status = 200 ->
                  /\ repos' = [repos EXCEPT ![idx].commit = e.resp.sha]
                  /\ pc' # "exit"
                  /\ \/ checkRet' = checkRet /\ idx' = idx + 1
                     \/ checkRet' = Append(checkRet, TRUE) /\ idx = Len(repos)
             [] OTHER ->
                  /\ repos' = repos
                  /\ checkRet' = checkRet
                  /\ pc' = "exit" /\ exitCode' = 1 ]_vars

C6_Witness ==
  /\ Len(log) = 1
  /\ log[1].op = "GET_branch" /\ log[1].status = 404
  /\ repos[1].commit = "c0"
  /\ checkRet = <<FALSE>>

Queries(call) == SelectSeq(log, LAMBDA e : e.op = "GET_branch" /\ e.req.call = call)

\* C7: check_repos queries the records in list order and stops at the first
\* one that does not resolve: it returns True exactly when every record was
\* answered 200, and after a failure no later record is queried or changed
C7_CheckReposFailFast ==
  \A call \in 1..2 :
    LET qs == Queries(call)
    IN /\ Len(qs) <= Len(repos)
       /\ \A k \in 1..Len(qs) :
            /\ qs[k].repo = repos[k].name
            /\ k < Len(qs) => qs[k].status = 200
       /\ call <= Len(checkRet) =>
            /\ checkRet[call] <=>
                 (Len(qs) = Len(repos) /\ \A k \in 1..Len(qs) : qs[k].status = 200)
            /\ ~checkRet[call] =>
                 /\ qs[Len(qs)].status = 404
                 /\ \A j \in (Len(qs) + 1)..Len(repos) :
                      IF call = 1 THEN repos[j].commit \notin Shas
                      ELSE repos[j].commit = Queries(1)[j].resp.sha

C7_Witness ==
  /\ Len(repos) = 2
  /\ checkRet = <<TRUE, FALSE>>
  /\ Len(Queries(2)) = 1
  /\ pc = "generate_repo_tags"

----------------------------------------------------------------------------
(* Workflow monitoring: release_tool.monitor_workflows, generate_table,    *)
(* ghlib.get_repo_workflow_by_tag / _by_time, get_workflow_status,         *)
(* workflows_complete                                                      *)

ListStatuses == {200, 404, 500}
RunStatuses == {200, 404, 500}
JobStatuses == {200, 404, 500}

\* the part of a run-detail answer the code reads
RunBodies ==
  { [status |-> "in_progress", conclusion |-> "null"],
    [status |-> "completed", conclusion |-> "success"],
    [status |-> "completed", conclusion |-> "skipped"],
    [status |-> "completed", conclusion |-> "neutral"] }

\* ghlib.get_repo_workflow_by_tag; st, urls: answer of the list query
get_repo_workflow_by_tag(tag, st, urls) ==
  IF tag = <<>>
  THEN [ret |-> <<>>, sent |-> FALSE, fatal |-> FALSE]
  ELSE CASE st = 200 -> [ret |-> urls, sent |-> TRUE, fatal |-> FALSE]
         [] st = 404 -> [ret |-> <<>>, sent |-> TRUE, fatal |-> FALSE]
         [] OTHER -> [ret |-> <<>>, sent |-> TRUE, fatal |-> TRUE]

\* ghlib.get_repo_workflow_by_time; st, urls: answer of the list query
get_repo_workflow_by_time(st, urls) ==
  CASE st = 200 -> [ret |-> urls, sent |-> TRUE, fatal |-> FALSE]
    [] st = 404 -> [ret |-> <<>>, sent |-> TRUE, fatal |-> FALSE]
    [] OTHER -> [ret |-> <<>>, sent |-> TRUE, fatal |-> TRUE]

\* ghlib.get_workflow_status; st, body: answer of the run GET; jst, njobs:
\* answer of the jobs GET.  "crash": jobs[-1] on an empty list raises
get_workflow_status(st, body, jst, njobs) ==
  CASE st = 200 -> IF jst # 200 THEN "empty"
                   ELSE IF njobs = 0 THEN "crash"
                   ELSE "row"
    [] st = 404 -> "empty"
    [] OTHER -> "fatal"

run_completed_ByStatus(st, body) ==
  /\ st = 200
  /\ body.status \in {"success", "completed", "cancelled", "failure",
                      "action_required", "timed_out", "skipped"}

run_completed_NoSkipped(st, body) ==
  /\ st = 200
  /\ body.conclusion \in {"success", "completed", "cancelled", "failure",
                          "action_required", "timed_out"}

\* ghlib.workflows_complete: the run at hand leaves `completed` as it is
run_completed(st, body) ==
  /\ st = 200
  /\ body.conclusion \in {"success", "completed", "cancelled", "failure",
                          "action_required", "timed_out", "skipped"}

AfterComplete_Inverted(verdict) == IF verdict THEN "sleep" ELSE "final_render"

AfterComplete_Rediscover(verdict) == IF verdict THEN "final_render" ELSE "discover"

AfterComplete_NoSleep(verdict) == IF verdict THEN "final_render" ELSE "render"

\* release_tool.monitor_workflows: if workflows_complete(...): ... return,
\* else time.sleep(30)
AfterComplete(verdict) == IF verdict THEN "final_render" ELSE "sleep"

RECURSIVE Flatten(_)
Flatten(info) ==
  IF info = <<>> THEN <<>> ELSE Head(info).urls \o Flatten(Tail(info))

\* the run URLs in the order in which the loops over workflow_info.items() meet them
Tracked == Flatten(workflow_info)

MonInit ==
  /\ entry = "monitor_workflows"
  /\ pc = "monitor_workflows"
  /\ idx = 1
  /\ token = <<"g", "h", "p", "_", "a">>
  /\ now = <<>>
  /\ repos \in { f \in ConfigLists : Len(f) = 2 /\ \A i \in 1..2 : f[i].branch = "develop" /\ f[i].commit = "" }
  /\ log = <<>>
  /\ hostTags = {}
  /\ hostRefs = {}
  /\ checkRet = <<>>
  /\ answers = <<>>
  /\ shown = <<>>
  /\ checked = [i \in 1..Len(repos) |-> <<>>]
  /\ publishRet = [i \in 1..Len(repos) |-> "none"]
  /\ tag_sha = ""
  /\ exitCode = "none"
  /\ selector \in {"tag", "time", "none"}
  /\ workflow_info = <<>>
  /\ mpc = IF selector = "none" THEN "prompt" ELSE "discover"
  /\ cursor = 1
  /\ completed = TRUE
  /\ seen = <<>>
  /\ verdicts = <<>>
  /\ last_fetch = "none"
  /\ sleeps = 0
  /\ list_queries = <<>>
  /\ unexpected = {}
  /\ settled = FALSE
  /\ VerifyIdle
  /\ ReleaseIdle
  /\ config = repos
  /\ ManifestIdle
  /\ CommandIdle

\* str.strip() on the blank the operator may type
RECURSIVE strip(_)
strip(s) ==
  IF s = <<>> THEN s
  ELSE IF Head(s) = " " THEN strip(Tail(s))
  ELSE IF s[Len(s)] = " " THEN strip(SubSeq(s, 1, Len(s) - 1))
  ELSE s

\* monitor_workflows, lines 192-196: neither --tag nor --time was given
prompt_accepts(resp) == strip(lower(resp)) = <<"y">>

\* host: a per-run answer it may give; once the runs have settled every run
\* answers 200 with a terminal conclusion
HostRun(st, body) ==
  settled => st = 200 /\ body.conclusion \in {"success", "skipped"}

\* host: a job-list answer it may give; a settled run lists its jobs
HostJobs(jst, njobs) == settled => jst = 200 /\ njobs >= 1

\* monitor_workflows, lines 192-196: the operator is asked; without "y" the
\* command aborts, with it no list query is made (neither branch of line 199
\* or 202 is taken) and the loop starts on an empty map
PromptNow ==
  /\ mpc = "prompt"
  /\ \E resp \in Answers :
       mpc' = IF prompt_accepts(resp) THEN "render" ELSE "exit"
  /\ UNCHANGED <<selector, workflow_info, cursor, completed, seen, verdicts,
                 last_fetch, sleeps, list_queries, unexpected, settled>>
  /\ UNCHANGED <<tagVars, verVars, relVars, extVars>>

\* monitor_workflows, lines 198-204: one list query per repository
Discover ==
  /\ mpc = "discover"
  /\ cursor <= Len(repos)
  /\ \E st \in ListStatuses, n \in 0..(MaxTracked - Len(Tracked)) :
       LET urls == [k \in 1..n |-> <<repos[cursor].name, k>>]
           d == IF selector = "tag"
                THEN get_repo_workflow_by_tag(<<"t">>, st, urls)
                ELSE get_repo_workflow_by_time(st, urls)
       IN /\ list_queries' = IF d.sent THEN Append(list_queries, [repo |-> repos[cursor].name,
                                                                 status |-> st])
                             ELSE list_queries
          /\ IF d.fatal
             THEN mpc' = "exit" /\ UNCHANGED <<workflow_info, cursor>>
             ELSE /\ workflow_info' = Append(workflow_info,
                                             [repo |-> repos[cursor].name, urls |-> d.ret])
                  /\ IF cursor < Len(repos)
                     THEN cursor' = cursor + 1 /\ UNCHANGED mpc
                     ELSE cursor' = 1 /\ mpc' = "render"
  /\ UNCHANGED <<selector, completed, seen, verdicts, last_fetch, sleeps,
                 unexpected, settled>>
  /\ UNCHANGED <<tagVars, verVars, relVars, extVars>>

\* generate_table: get_workflow_status for the run at hand (lines 208, 211)
GenerateTable ==
  /\ mpc \in {"render", "final_render"}
  /\ cursor <= Len(Tracked)
  /\ \E st \in RunStatuses, body \in RunBodies, jst \in JobStatuses, njobs \in 0..1 :
       LET out == get_workflow_status(st, body, jst, njobs)
       IN /\ HostRun(st, body)
          /\ HostJobs(jst, njobs)
          /\ last_fetch' = out
          /\ unexpected' = unexpected
                \cup (IF st \notin {200, 404} THEN {"run_detail"} ELSE {})
                \cup (IF st = 200 /\ jst \notin {200, 404} THEN {"job_list"} ELSE {})
          /\ IF out \in {"fatal", "crash"}
             THEN mpc' = "exit" /\ UNCHANGED cursor
             ELSE cursor' = cursor + 1 /\ UNCHANGED mpc
  /\ UNCHANGED <<selector, workflow_info, completed, seen, verdicts, sleeps,
                 list_queries, settled>>
  /\ UNCHANGED <<tagVars, verVars, relVars, extVars>>

\* the table of the sweep is shown; workflows_complete is entered (lines 209-210)
RenderDone ==
  /\ mpc = "render"
  /\ cursor > Len(Tracked)
  /\ mpc' = "complete"
  /\ cursor' = 1
  /\ completed' = TRUE
  /\ seen' = <<>>
  /\ UNCHANGED <<selector, workflow_info, verdicts, last_fetch, sleeps,
                 list_queries, unexpected, settled>>
  /\ UNCHANGED <<tagVars, verVars, relVars, extVars>>

\* workflows_complete: the GET for the run at hand (lines 242-251)
WorkflowsComplete ==
  /\ mpc = "complete"
  /\ cursor <= Len(Tracked)
  /\ \E st \in RunStatuses, body \in RunBodies :
       /\ HostRun(st, body)
       /\ seen' = Append(seen, [run |-> Tracked[cursor], status_code |-> st,
                                conclusion |-> IF st = 200 THEN body.conclusion
                                               ELSE "absent"])
       /\ completed' = IF run_completed(st, body) THEN completed ELSE FALSE
       /\ unexpected' = unexpected
             \cup (IF st \notin {200, 404} THEN {"completion_check"} ELSE {})
  /\ cursor' = cursor + 1
  /\ UNCHANGED <<selector, workflow_info, mpc, verdicts, last_fetch, sleeps,
                 list_queries, settled>>
  /\ UNCHANGED <<tagVars, verVars, relVars, extVars>>

\* workflows_complete returns `completed`; monitor_workflows tests it (line 210)
WorkflowsCompleteReturn ==
  /\ mpc = "complete"
  /\ cursor > Len(Tracked)
  /\ verdicts' = Append(verdicts, completed)
  /\ mpc' = AfterComplete(completed)
  /\ cursor' = 1
  /\ UNCHANGED <<selector, workflow_info, completed, seen, last_fetch, sleeps,
                 list_queries, unexpected, settled>>
  /\ UNCHANGED <<tagVars, verVars, relVars, extVars>>

\* monitor_workflows returns after the closing table (lines 211-218)
MonitorReturn ==
  /\ mpc = "final_render"
  /\ cursor > Len(Tracked)
  /\ mpc' = "returned"
  /\ UNCHANGED <<selector, workflow_info, cursor, completed, seen, verdicts,
                 last_fetch, sleeps, list_queries, unexpected, settled>>
  /\ UNCHANGED <<tagVars, verVars, relVars, extVars>>

\* time.sleep(30), then the next sweep (line 219)
Sleep ==
  /\ mpc = "sleep"
  /\ sleeps < MaxSleeps
  /\ sleeps' = sleeps + 1
  /\ mpc' = "render"
  /\ cursor' = 1
  /\ seen' = <<>>
  /\ UNCHANGED <<selector, workflow_info, completed, verdicts, last_fetch,
                 list_queries, unexpected, settled>>
  /\ UNCHANGED <<tagVars, verVars, relVars, extVars>>

MonNext ==
  \/ PromptNow
  \/ Discover
  \/ GenerateTable
  \/ RenderDone
  \/ WorkflowsComplete
  \/ WorkflowsCompleteReturn
  \/ MonitorReturn
  \/ Sleep

SpecMonitor == MonInit /\ [][MonNext]_vars

\* host: from now on every tracked run answers 200 with a terminal conclusion
\* (it happens while the loop can still sleep once more within MaxSleeps)
Settle ==
  /\ mpc \in {"render", "complete", "sleep"}
  /\ ~settled
  /\ sleeps < MaxSleeps
  /\ settled' = TRUE
  /\ UNCHANGED <<selector, workflow_info, mpc, cursor, completed, seen, verdicts,
                 last_fetch, sleeps, list_queries, unexpected>>
  /\ UNCHANGED <<tagVars, verVars, relVars, extVars>>

MonNextLive ==
  \/ PromptNow
  \/ Discover
  \/ GenerateTable
  \/ RenderDone
  \/ WorkflowsComplete
  \/ WorkflowsCompleteReturn
  \/ MonitorReturn
  \/ Sleep
  \/ Settle

\* the command is a sequential program that is never suspended: whenever it
\* has a next step it takes one
SpecMonitorLive == MonInit /\ [][MonNextLive]_vars /\ WF_vars(MonNext)

----------------------------------------------------------------------------
(* Properties of workflow monitoring *)

TerminalSet == {"success", "completed", "cancelled", "failure",
                "action_required", "timed_out", "skipped"}

\* the workflows_complete call has returned and its answers are still at hand
Evaluated == mpc \in {"sleep", "final_render", "returned"}

\* C9: workflows_complete examines every run of the map, in order, and returns
\* True exactly when the conclusion of every run is in the terminal set (a run
\* whose GET is not answered 200 reports no conclusion)
C9_ConvergencePredicate ==
  /\ mpc = "complete" =>
       /\ Len(seen) = cursor - 1
       /\ completed <=> \A k \in 1..Len(seen) : seen[k].conclusion \in TerminalSet
  /\ Evaluated =>
       /\ Len(seen) = Len(Tracked)
       /\ \A k \in 1..Len(seen) : seen[k].run = Tracked[k]
       /\ verdicts[Len(verdicts)] <=>
            \A k \in 1..Len(seen) : seen[k].conclusion \in TerminalSet

C9_Witness ==
  /\ mpc = "sleep"
  /\ Len(workflow_info) = 2
  /\ Len(workflow_info[1].urls) = 2 /\ Len(workflow_info[2].urls) = 1
  /\ seen[1].conclusion = "neutral"
  /\ seen[2].conclusion = "skipped"
  /\ seen[3].conclusion = "success"
  /\ verdicts = <<FALSE>>

\* C10: when the first completion check finds every tracked run terminal, or
\* no run is tracked at all, the monitor never sleeps: it shows the closing
\* table and returns (only a fatal answer to a fetch of that closing table can
\* end the process before the return)
C10_NoSleepWhenTerminal ==
  LET first_all_terminal ==
        /\ Len(verdicts) >= 1
        /\ sleeps = 0
        /\ \A k \in 1..Len(seen) : seen[k].conclusion \in TerminalSet
  IN /\ first_all_terminal =>
          /\ mpc \in {"final_render", "returned", "exit"}
          /\ verdicts = <<TRUE>>
          /\ mpc = "exit" => last_fetch \in {"fatal", "crash"}
     /\ (mpc \in {"final_render", "returned"} /\ Len(verdicts) = 1) => sleeps = 0
     /\ (Len(workflow_info) = Len(repos) /\ Tracked = <<>>) =>
          /\ sleeps = 0
          /\ mpc \in {"render", "complete", "final_render", "returned"}

C10_Witness ==
  /\ mpc = "returned"
  /\ Len(Tracked) = 3
  /\ verdicts = <<TRUE>>
  /\ sleeps = 0

C10_WitnessNoRuns ==
  /\ mpc = "returned"
  /\ Len(workflow_info) = 2
  /\ Tracked = <<>>
  /\ sleeps = 0

\* C11: a run that answers 404 in the completion check does not block
\* convergence: when every run of the check answered either 404 or 200 with a
\* terminal conclusion, the check returns True and the monitor goes on to
\* return instead of sleeping
C11_NotFoundDoesNotBlock ==
  (/\ Evaluated
   /\ \E k \in 1..Len(seen) : seen[k].status_code = 404
   /\ \A k \in 1..Len(seen) :
        \/ seen[k].status_code = 404
        \/ seen[k].conclusion \in TerminalSet)
  => /\ verdicts[Len(verdicts)] = TRUE
     /\ mpc # "sleep"

\* C12: a per-run request of a sweep (run detail or job list of the display
\* fetch, run detail of the completion check) that is answered with a status
\* other than 200 or 404 ends the process at once: no further fetch, sleep or
\* sweep follows
C12_UnexpectedStatusAborts ==
  unexpected # {} => mpc = "exit"

----------------------------------------------------------------------------
(* Container verification: release_tool.verify_containers, find_container, *)
(* repoinfo.container_url                                                  *)

\* values the container_registry setting of a section can hold
Registries == {"", "dockerhub", "harbor", "quay"}

ContainerStatuses == {200, 404, 500}

\* the sections of a configuration file, with their container settings
VerifyConfigOf(i) ==
  { [RepoInfo(RepoName(i), "develop", <<"d", "e", "v">>, "calver", <<>>, "")
       EXCEPT !.container_registry = g,
              !.container_repo = IF g = "" THEN "" ELSE RepoName(i)] :
      g \in Registries }

VerifyLists ==
  UNION { { f \in [1..n -> UNION { VerifyConfigOf(i) : i \in 1..n }] :
              \A i \in 1..n : f[i] \in VerifyConfigOf(i) } : n \in 1..MaxRepos }

\* repoinfo.container_url; the empty sequence is the empty string
container_url(repo_config, tag) ==
  CASE repo_config.container_registry = "dockerhub" ->
         <<"hub.docker.com/v2/repositories", repo_config.container_repo, "tags", tag>>
    [] repo_config.container_registry = "harbor" ->
         <<"hub.opensciencegrid.org/sslhep", repo_config.container_repo, "tags", tag>>
    [] OTHER -> <<>>

has_registry_Always(repo) == TRUE

\* verify_containers, line 325: the filter of the list comprehension
has_registry(repo) == repo.container_registry # ""

\* verify_containers, line 325
registry_repos(repo_configs) == SelectSeq(repo_configs, has_registry)

find_container_Not404(url, st) ==
  IF url = <<>> THEN "raise" ELSE IF st # 404 THEN "true" ELSE "false"

\* release_tool.find_container; requests.get of an empty URL raises
find_container(url, st) ==
  IF url = <<>> THEN "raise" ELSE IF st = 200 THEN "true" ELSE "false"

verify_containers_step_FirstFoundPasses(found) ==
  CASE found = "true" -> "passed"
    [] found = "false" -> "abort"
    [] OTHER -> "crash"

\* verify_containers, lines 326-329: what the loop does with find_container's answer
verify_containers_step(found) ==
  CASE found = "true" -> "next"
    [] found = "false" -> "abort"
    [] OTHER -> "crash"

VerInit ==
  /\ entry = "verify_containers"
  /\ pc = "verify_containers"
  /\ idx = 1
  /\ token = <<"g", "h", "p", "_", "a">>
  /\ now = <<>>
  /\ repos \in VerifyLists
  /\ log = <<>>
  /\ hostTags = {}
  /\ hostRefs = {}
  /\ checkRet = <<>>
  /\ answers = <<>>
  /\ shown = <<>>
  /\ checked = [i \in 1..Len(repos) |-> <<>>]
  /\ publishRet = [i \in 1..Len(repos) |-> "none"]
  /\ tag_sha = ""
  /\ exitCode = "none"
  /\ MonitorIdle
  /\ registry \in [{repos[i].name : i \in 1..Len(repos)} -> ContainerStatuses]
  /\ vtag \in { <<>>, <<"t">> }
  /\ round = 1
  /\ verRet = <<>>
  /\ ReleaseIdle
  /\ config = repos
  /\ ManifestIdle
  /\ CommandIdle

\* the variables of the tag pipeline verify_containers does not use
verFrame == <<entry, token, now, hostTags, hostRefs, checkRet, answers, shown,
              checked, publishRet, tag_sha>>

\* verify_containers, lines 319-325: the tag is validated, the list is filtered
VerifyStart ==
  /\ entry = "verify_containers"
  /\ pc = "verify_containers"
  /\ IF vtag = <<>>
     THEN Abort /\ verRet' = Append(verRet, "no_tag")
     ELSE pc' = "checking" /\ UNCHANGED <<exitCode, verRet>>
  /\ idx' = 1
  /\ UNCHANGED <<repos, log, registry, vtag, round>>
  /\ UNCHANGED <<verFrame, monVars, relVars, extVars>>

\* verify_containers, lines 326-329: find_container for the record at hand
FindContainer ==
  /\ pc = "checking"
  /\ idx <= Len(registry_repos(repos))
  /\ LET repo == registry_repos(repos)[idx]
         url == container_url(repo, vtag)
         st == registry[repo.name]
         step == verify_containers_step(find_container(url, st))
     IN /\ log' = IF url = <<>> THEN log
                  ELSE Append(log, Req("GET_container", repo.name, st, url, ""))
        /\ CASE step = "next" ->
                  idx' = idx + 1 /\ UNCHANGED <<pc, exitCode, verRet>>
             [] step = "passed" ->
                  /\ pc' = "verified"
                  /\ verRet' = Append(verRet, "passed")
                  /\ UNCHANGED <<idx, exitCode>>
             [] step = "abort" ->
                  Abort /\ verRet' = Append(verRet, "aborted") /\ UNCHANGED idx
             [] OTHER ->
                  Abort /\ verRet' = Append(verRet, "crashed") /\ UNCHANGED idx
  /\ UNCHANGED <<repos, registry, vtag, round>>
  /\ UNCHANGED <<verFrame, monVars, relVars, extVars>>

\* verify_containers, line 330: "All containers verified successfully"
VerifyDone ==
  /\ pc = "checking"
  /\ idx > Len(registry_repos(repos))
  /\ pc' = "verified"
  /\ verRet' = Append(verRet, "passed")
  /\ UNCHANGED <<idx, repos, log, exitCode, registry, vtag, round>>
  /\ UNCHANGED <<verFrame, monVars, relVars, extVars>>

\* the operator runs verify_containers once more, on the same sections in any
\* order of the configuration file, against the same registry contents
Reinvoke ==
  /\ entry = "verify_containers"
  /\ pc \in {"verified", "exit"}
  /\ round = 1
  /\ round' = 2
  /\ \E p \in [1..Len(repos) -> 1..Len(repos)] :
       /\ \A i, j \in 1..Len(repos) : p[i] = p[j] => i = j
       /\ repos' = [i \in 1..Len(repos) |-> repos[p[i]]]
  /\ pc' = "verify_containers"
  /\ idx' = 1
  /\ log' = <<>>
  /\ exitCode' = "none"
  /\ UNCHANGED <<registry, vtag, verRet>>
  /\ UNCHANGED <<verFrame, monVars, relVars, extVars>>

VerNext ==
  \/ VerifyStart
  \/ FindContainer
  \/ VerifyDone
  \/ Reinvoke

SpecVerify == VerInit /\ [][VerNext]_vars

----------------------------------------------------------------------------
(* Properties of container verification *)

\* the record of the configuration that is called `name`
Record(name) == CHOOSE r \in {repos[i] : i \in 1..Len(repos)} : r.name = name

NoRegistry == \A i \in 1..Len(repos) : repos[i].container_registry = ""

\* C15: no GET is issued for a record without a configured registry, and when
\* no record has one (and a tag is given) the pass sends nothing, never
\* aborts and ends with the success message
C15_SkipWithoutRegistry ==
  /\ entry = "verify_containers" =>
       \A k \in 1..Len(log) : Record(log[k].repo).container_registry # ""
  /\ (entry = "verify_containers" /\ NoRegistry /\ vtag # <<>>) =>
       /\ log = <<>>
       /\ pc \in {"verify_containers", "checking", "verified"}
       /\ \A k \in 1..Len(verRet) : verRet[k] = "passed"

C15_Witness ==
  /\ pc = "verified"
  /\ round = 1
  /\ Len(repos) = 2
  /\ repos[1].container_registry = ""
  /\ repos[2].container_registry = "harbor"
  /\ Len(log) = 1 /\ log[1].repo = repos[2].name

C15_WitnessNoRegistry ==
  /\ pc = "verified"
  /\ round = 1
  /\ Len(repos) = 2
  /\ NoRegistry
  /\ log = <<>>
  /\ verRet = <<"passed">>

\* C16: the records with a registry are checked in list order; a tag exists
\* only on status 200, and the first other status aborts the pass: no later
\* record is checked and the pass does not report success
C16_FirstAbsentAborts ==
  entry = "verify_containers" =>
    /\ Len(log) <= Len(registry_repos(repos))
    /\ \A k \in 1..Len(log) :
         /\ log[k].repo = registry_repos(repos)[k].name
         /\ log[k].status = registry[log[k].repo]
         /\ k < Len(log) => log[k].status = 200
    /\ (Len(log) > 0 /\ log[Len(log)].status # 200) =>
         /\ pc = "exit" /\ exitCode = 1
         /\ Len(verRet) = round /\ verRet[round] = "aborted"
    /\ pc = "verified" =>
         /\ Len(log) = Len(registry_repos(repos))
         /\ \A k \in 1..Len(log) : log[k].status = 200
         /\ Len(verRet) = round /\ verRet[round] = "passed"

C16_Witness ==
  /\ pc = "exit"
  /\ round = 1
  /\ Len(registry_repos(repos)) = 2
  /\ Len(log) = 1
  /\ log[1].status = 500
  /\ verRet = <<"aborted">>

\* C17: the verdict of a pass (all present or not) does not depend on the
\* order of the records and is the same when the pass is repeated: the second
\* invocation, on any permutation of the same records against the same
\* registry contents, passes exactly when the first one did
C17_OrderIndependent ==
  (entry = "verify_containers" /\ Len(verRet) = 2) =>
    ((verRet[1] = "passed") <=> (verRet[2] = "passed"))

C17_Witness ==
  /\ entry = "verify_containers"
  /\ verRet = <<"aborted", "aborted">>
  /\ Len(repos) = 2
  /\ repos[1].name = "repo2"
  /\ registry["repo1"] = 200 /\ registry["repo2"] = 404
  /\ repos[1].container_registry # "" /\ repos[2].container_registry # ""

----------------------------------------------------------------------------
(* Chart release: release_tool.release, git.py, util.replace_appver,       *)
(* util.replace_tags, util.generate_helm_package                           *)

\* the statements of release in program order (A: ServiceX, B: ssl-helm-charts)
ReleaseSteps ==
  << "mkdtemp",
     "checkout_repo_A", "checkout_branch_A",
     "replace_appver", "replace_tags",
     "add_file_A_chart", "add_file_A_values", "commit_A",
     "checkout_repo_B", "checkout_branch_B",
     "generate_helm_package",
     "add_file_B_index", "add_file_B_archive", "commit_B",
     "push_A", "push_B" >>

StepIndex(step) == CHOOSE k \in 1..Len(ReleaseSteps) : ReleaseSteps[k] = step

\* the statement after `step`; after the last one the try block is left
After(step) ==
  IF StepIndex(step) = Len(ReleaseSteps) THEN "finally"
  ELSE ReleaseSteps[StepIndex(step) + 1]

\* tempfile.mkdtemp: the directory, or IOError
MkdtempResults == {"ok", "ioerror"}

\* git.checkout_repo: the repository, or None
CheckoutRepoResults == {"ok", "none"}

\* git.checkout_branch, add_file, commit, push: exit_code == 0
GitResults == {"true", "false"}

\* util.replace_appver / replace_tags: the file is rewritten; the file is
\* missing and the function returns; the file system raises (IOError); the
\* YAML is malformed (another exception)
ReplaceResults == {"done", "skipped", "ioerror", "error"}

\* util.generate_helm_package: packaged and indexed; a directory is missing and
\* the function returns; a helm command fails (error()); moving the archive raises
HelmResults == {"done", "skipped", "helm_failed", "ioerror"}

\* the step did what it is there for
Succeeded(result) == result \in {"ok", "true", "done"}

release_step_PushIgnored(step, result) ==
  CASE step = "mkdtemp" /\ result = "ioerror" -> "abort"
    [] step \in {"checkout_repo_A", "checkout_repo_B"} /\ result = "none" -> "abort"
    [] step \in {"checkout_branch_A", "checkout_branch_B"} /\ result = "false" -> "abort"
    [] step \in {"replace_appver", "replace_tags"} /\ result = "ioerror" -> "swallow"
    [] step \in {"replace_appver", "replace_tags"} /\ result = "error" -> "crash"
    [] step = "generate_helm_package" /\ result = "helm_failed" -> "abort"
    [] step = "generate_helm_package" /\ result = "ioerror" -> "swallow"
    [] OTHER -> "next"

\* release, lines 376-416: what follows a statement with the given result.
\* "abort": error() -> sys.exit(1); "swallow": except IOError: pass;
\* "crash": the exception leaves release; "next": the next statement (the
\* results of add_file and commit are not looked at)
release_step(step, result) ==
  CASE step = "mkdtemp" /\ result = "ioerror" -> "abort"
    [] step \in {"checkout_repo_A", "checkout_repo_B"} /\ result = "none" -> "abort"
    [] step \in {"checkout_branch_A", "checkout_branch_B"} /\ result = "false" -> "abort"
    [] step \in {"replace_appver", "replace_tags"} /\ result = "ioerror" -> "swallow"
    [] step \in {"replace_appver", "replace_tags"} /\ result = "error" -> "crash"
    [] step = "generate_helm_package" /\ result = "helm_failed" -> "abort"
    [] step = "generate_helm_package" /\ result = "ioerror" -> "swallow"
    [] step \in {"push_A", "push_B"} /\ result = "false" -> "abort"
    [] OTHER -> "next"

\* release, lines 417-420: the finally block (shutil.rmtree is commented out)
release_finally(dir) == dir

RelInit ==
  /\ entry = "release"
  /\ pc = "mkdtemp"
  /\ idx = 1
  /\ token = <<"g", "h", "p", "_", "a">>
  /\ now = <<>>
  /\ repos \in { f \in VerifyLists : Len(f) = 1 }
  /\ log = <<>>
  /\ hostTags = {}
  /\ hostRefs = {}
  /\ checkRet = <<>>
  /\ answers = <<>>
  /\ shown = <<>>
  /\ checked = [i \in 1..Len(repos) |-> <<>>]
  /\ publishRet = [i \in 1..Len(repos) |-> "none"]
  /\ tag_sha = ""
  /\ exitCode = "none"
  /\ MonitorIdle
  /\ VerifyIdle
  /\ ReleaseIdle
  /\ config = repos
  /\ ManifestIdle
  /\ CommandIdle

\* the variables release does not use
relFrame == <<entry, idx, token, now, repos, log, hostTags, hostRefs, checkRet,
              answers, shown, checked, publishRet, tag_sha>>

\* one statement of release: it is run, its result is recorded, and control
\* goes where release_step says ("finally_exit": the finally block with the
\* exit pending)
ReleaseStatement(steps, results) ==
  /\ pc \in steps
  /\ \E r \in results :
       LET eff == release_step(pc, r)
       IN /\ done' = Append(done, [step |-> pc, result |-> r])
          /\ pushed' = IF r = "true" /\ pc = "push_A" THEN pushed \cup {"A"}
                       ELSE IF r = "true" /\ pc = "push_B" THEN pushed \cup {"B"}
                       ELSE pushed
          /\ temp_dir' = IF pc = "mkdtemp" /\ r = "ok" THEN "exists" ELSE temp_dir
          /\ CASE eff = "next" -> pc' = After(pc) /\ UNCHANGED exitCode
               [] eff = "swallow" -> pc' = "finally" /\ UNCHANGED exitCode
               [] OTHER -> IF pc = "mkdtemp" THEN Abort
                           ELSE pc' = "finally_exit" /\ exitCode' = 1
  /\ UNCHANGED <<relFrame, monVars, verVars, extVars>>

\* release, lines 375-379
Mkdtemp ==
  /\ entry = "release"
  /\ ReleaseStatement({"mkdtemp"}, MkdtempResults)

\* release, lines 387-391 and 399-403
CheckoutRepo ==
  /\ entry = "release"
  /\ ReleaseStatement({"checkout_repo_A", "checkout_repo_B"}, CheckoutRepoResults)

\* release, lines 392-393 and 404-405
CheckoutBranch ==
  /\ entry = "release"
  /\ ReleaseStatement({"checkout_branch_A", "checkout_branch_B"}, GitResults)

\* release, line 394
ReplaceAppver ==
  /\ entry = "release"
  /\ ReleaseStatement({"replace_appver"}, ReplaceResults)

\* release, line 395
ReplaceTags ==
  /\ entry = "release"
  /\ ReleaseStatement({"replace_tags"}, ReplaceResults)

\* release, lines 396-397 and 407-408
AddFile ==
  /\ entry = "release"
  /\ ReleaseStatement({"add_file_A_chart", "add_file_A_values",
                       "add_file_B_index", "add_file_B_archive"}, GitResults)

\* release, lines 398 and 409
Commit ==
  /\ entry = "release"
  /\ ReleaseStatement({"commit_A", "commit_B"}, GitResults)

\* release, line 406
GenerateHelmPackage ==
  /\ entry = "release"
  /\ ReleaseStatement({"generate_helm_package"}, HelmResults)

\* release, lines 410-413
Push ==
  /\ entry = "release"
  /\ ReleaseStatement({"push_A", "push_B"}, GitResults)

\* release, lines 417-420: the finally block runs on every way out of the try
\* block, then release returns or the pending exit goes on
Finally ==
  /\ entry = "release"
  /\ pc \in {"finally", "finally_exit"}
  /\ temp_dir' = release_finally(temp_dir)
  /\ pc' = IF pc = "finally_exit" THEN "exit" ELSE "returned"
  /\ UNCHANGED <<done, pushed, exitCode>>
  /\ UNCHANGED <<relFrame, monVars, verVars, extVars>>

RelNext ==
  \/ Mkdtemp
  \/ CheckoutRepo
  \/ CheckoutBranch
  \/ ReplaceAppver
  \/ ReplaceTags
  \/ AddFile
  \/ Commit
  \/ GenerateHelmPackage
  \/ Push
  \/ Finally

SpecRelease == RelInit /\ [][RelNext]_vars

----------------------------------------------------------------------------
(* Properties of the chart release *)

\* C18: in the chart release a step runs only if every step before it
\* succeeded; in particular no repository is pushed after a manifest
\* mutation, staging, commit or packaging step that failed
C18_StepsGated ==
  entry = "release" =>
    /\ \A k \in 1..Len(done) : \A j \in 1..(k - 1) : Succeeded(done[j].result)
    /\ pushed # {} =>
         \A j \in 1..Len(done) :
           done[j].step \notin {"push_A", "push_B"} => Succeeded(done[j].result)

\* C19: the scratch directory release acquired is removed on every way out of
\* release: normal return, a failed step, fatal termination
C19_ScratchRemoved ==
  (entry = "release" /\ pc \in {"returned", "exit"} /\ Len(done) >= 1
     /\ done[1].result = "ok")
  => temp_dir = "removed"

\* C20: A is pushed before B, and B's push is attempted only after A's push
\* succeeded; a failed push ends release at once, so after a successful push
\* of A and a failed push of B the remote of A stays updated, the remote of B
\* is not, and nothing further is done to either
C20_PushOrder ==
  entry = "release" =>
    /\ \A k \in 1..Len(done) :
         /\ done[k].step = "push_B" =>
              k > 1 /\ done[k - 1].step = "push_A" /\ done[k - 1].result = "true"
         /\ (done[k].step \in {"push_A", "push_B"} /\ done[k].result = "false") =>
              /\ k = Len(done)
              /\ pc \in {"finally_exit", "exit"}
              /\ exitCode = 1
    /\ "B" \in pushed => "A" \in pushed
    /\ "A" \in pushed <=>
         \E k \in 1..Len(done) : done[k].step = "push_A" /\ done[k].result = "true"
    /\ (Len(done) >= 1 /\ done[Len(done)] = [step |-> "push_B", result |-> "false"])
         => pushed = {"A"}

C20_Witness ==
  /\ entry = "release"
  /\ pc = "exit"
  /\ done[Len(done)] = [step |-> "push_B", result |-> "false"]
  /\ \A j \in 1..(Len(done) - 1) : Succeeded(done[j].result)
  /\ pushed = {"A"}

----------------------------------------------------------------------------
(* Manifest mutation: util.replace_appver, util.replace_tags               *)

\* the arguments release hands over: tag and chart_version
NewTag == "T"
ChartVersion == "V"

\* keys a Chart.yaml can hold
ChartKeys == {"appVersion", "version", "name"}

\* the sections replace_tags looks at (util.py line 90)
TagSections == {"app", "didFinder", "CERNOpenData", "codeGen", "x509Secrets"}

\* keys a values.yaml can hold, as <<section, key>>
ValuesKeys ==
  { <<sec, "tag">> : sec \in TagSections }
    \cup { <<"transformer", "defaultTransformerTag">>,
           <<"app", "image">>, <<"other", "tag">> }

\* the documents the two files can hold: every key present holds "old"
ChartDocs == { [k \in D |-> "old"] : D \in (SUBSET ChartKeys) \ {{}} }
ValuesDocs == { [k \in D |-> "old"] : D \in (SUBSET ValuesKeys) \ {{}} }

replace_appver_Swapped(doc, new_tag, release_version) ==
  [k \in DOMAIN doc |->
     IF k = "appVersion" THEN release_version
     ELSE IF k = "version" THEN new_tag
     ELSE doc[k]]

\* util.replace_appver, lines 112-115: the change made to the loaded document
replace_appver(doc, new_tag, release_version) ==
  [k \in DOMAIN doc |->
     IF k = "appVersion" THEN new_tag
     ELSE IF k = "version" THEN release_version
     ELSE doc[k]]

replace_tags_NoTransformer(doc, new_tag) ==
  [k \in DOMAIN doc |->
     IF k[1] \in TagSections /\ k[2] = "tag" THEN new_tag ELSE doc[k]]

\* util.replace_tags, lines 90-94: the change made to the loaded document
replace_tags(doc, new_tag) ==
  [k \in DOMAIN doc |->
     IF k[1] \in TagSections /\ k[2] = "tag" THEN new_tag
     ELSE IF k = <<"transformer", "defaultTransformerTag">> THEN new_tag
     ELSE doc[k]]

\* the file the function at hand is called on
file_path == IF entry = "replace_appver" THEN "Chart.yaml" ELSE "values.yaml"

new_file_InPlace(path) == path

\* file_path.with_name("Chart.yaml.new") / with_name("values.yaml.new")
new_file(path) == IF path = "Chart.yaml" THEN "Chart.yaml.new" ELSE "values.yaml.new"

\* what a path holds: nothing, or a document that is written out in full or not
Absent == [doc |-> <<>>, complete |-> FALSE, exists |-> FALSE]
Whole(doc) == [doc |-> doc, complete |-> TRUE, exists |-> TRUE]
Truncated == [doc |-> <<>>, complete |-> FALSE, exists |-> TRUE]

ManInit ==
  /\ entry \in {"replace_appver", "replace_tags"}
  /\ pc = "is_file"
  /\ idx = 1
  /\ token = <<"g", "h", "p", "_", "a">>
  /\ now = <<>>
  /\ repos \in { f \in VerifyLists : Len(f) = 1 /\ f[1].container_registry = "" }
  /\ log = <<>>
  /\ hostTags = {}
  /\ hostRefs = {}
  /\ checkRet = <<>>
  /\ answers = <<>>
  /\ shown = <<>>
  /\ checked = [i \in 1..Len(repos) |-> <<>>]
  /\ publishRet = [i \in 1..Len(repos) |-> "none"]
  /\ tag_sha = ""
  /\ exitCode = "none"
  /\ MonitorIdle
  /\ VerifyIdle
  /\ ReleaseIdle
  /\ config = repos
  /\ CommandIdle
  /\ \E content \in {Absent} \cup { Whole(d) : d \in IF entry = "replace_appver"
                                                     THEN ChartDocs ELSE ValuesDocs } :
       /\ fs = [p \in {file_path, new_file(file_path)} |->
                  IF p = file_path THEN content ELSE Absent]
       /\ orig = content
  /\ values = "none"

\* the variables the two functions do not use
manFrame == <<entry, idx, token, now, repos, log, hostTags, hostRefs, checkRet,
              answers, shown, checked, publishRet, tag_sha, exitCode, config>>

\* lines 86-87 / 108-109: a missing file makes the function return at once
IsFile ==
  /\ entry \in {"replace_appver", "replace_tags"}
  /\ pc = "is_file"
  /\ pc' = IF fs[file_path].exists THEN "load" ELSE "returned"
  /\ UNCHANGED <<fs, values, orig>>
  /\ UNCHANGED <<manFrame, monVars, verVars, relVars, cmdVars>>

\* lines 88-94 / 110-115: the document is loaded and changed in memory
Load ==
  /\ entry \in {"replace_appver", "replace_tags"}
  /\ pc = "load"
  /\ values' = IF entry = "replace_appver"
               THEN replace_appver(fs[file_path].doc, NewTag, ChartVersion)
               ELSE replace_tags(fs[file_path].doc, NewTag)
  /\ pc' = "open_new"
  /\ UNCHANGED <<fs, orig>>
  /\ UNCHANGED <<manFrame, monVars, verVars, relVars, cmdVars>>

\* lines 95-96 / 116-117: new_file.open('w') creates or truncates the file
OpenNew ==
  /\ entry \in {"replace_appver", "replace_tags"}
  /\ pc = "open_new"
  /\ fs' = [fs EXCEPT ![new_file(file_path)] = Truncated]
  /\ pc' = "dump"
  /\ UNCHANGED <<values, orig>>
  /\ UNCHANGED <<manFrame, monVars, verVars, relVars, cmdVars>>

\* lines 96 / 117: yaml.safe_dump writes the document out
Dump ==
  /\ entry \in {"replace_appver", "replace_tags"}
  /\ pc = "dump"
  /\ fs' = [fs EXCEPT ![new_file(file_path)] = Whole(values)]
  /\ pc' = "replace"
  /\ UNCHANGED <<values, orig>>
  /\ UNCHANGED <<manFrame, monVars, verVars, relVars, cmdVars>>

\* lines 97 / 118: new_file.replace(file_path), a rename
Replace ==
  /\ entry \in {"replace_appver", "replace_tags"}
  /\ pc = "replace"
  /\ fs' = IF new_file(file_path) = file_path THEN fs
           ELSE [fs EXCEPT ![file_path] = fs[new_file(file_path)],
                           ![new_file(file_path)] = Absent]
  /\ pc' = "returned"
  /\ UNCHANGED <<values, orig>>
  /\ UNCHANGED <<manFrame, monVars, verVars, relVars, cmdVars>>

\* a file operation raises (or the process is stopped) where the function is
Raise ==
  /\ entry \in {"replace_appver", "replace_tags"}
  /\ pc \in {"load", "open_new", "dump", "replace"}
  /\ pc' = "raised"
  /\ UNCHANGED <<fs, values, orig>>
  /\ UNCHANGED <<manFrame, monVars, verVars, relVars, cmdVars>>

ManNext ==
  \/ IsFile
  \/ Load
  \/ OpenNew
  \/ Dump
  \/ Replace
  \/ Raise

SpecManifest == ManInit /\ [][ManNext]_vars

----------------------------------------------------------------------------
(* Properties of manifest mutation *)

Mutating == entry \in {"replace_appver", "replace_tags"}

\* what the claim says the file holds after the step
Expected(doc) ==
  IF entry = "replace_appver"
  THEN [k \in DOMAIN doc |->
          CASE k = "appVersion" -> NewTag
            [] k = "version" -> ChartVersion
            [] OTHER -> doc[k]]
  ELSE [k \in DOMAIN doc |->
          CASE k \in { <<sec, "tag">> : sec \in TagSections } -> NewTag
            [] k = <<"transformer", "defaultTransformerTag">> -> NewTag
            [] OTHER -> doc[k]]

\* C21: the new document is written to a sibling file and renamed over the
\* original: at every point of the function, a failure between two steps
\* included, the original path holds the complete old document or the
\* complete new one
C21_AtomicReplace ==
  (Mutating /\ orig.exists) =>
    /\ fs[file_path].exists
    /\ fs[file_path].complete
    /\ fs[file_path].doc \in {orig.doc, Expected(orig.doc)}
    /\ pc \in {"is_file", "load", "open_new", "dump", "replace"} =>
         fs[file_path] = orig
    /\ (pc = "returned") => fs[file_path] = Whole(Expected(orig.doc))

C21_Witness ==
  /\ Mutating
  /\ pc = "raised"
  /\ fs[new_file(file_path)] = Truncated
  /\ fs[file_path] = orig
  /\ orig.exists

C22_WitnessChart ==
  /\ entry = "replace_appver"
  /\ pc = "returned"
  /\ DOMAIN orig.doc = ChartKeys
  /\ fs[file_path].doc = [appVersion |-> NewTag, version |-> ChartVersion, name |-> "old"]

----------------------------------------------------------------------------
(* Properties of tag generation *)

DigitValue(c) ==
  CASE c = "0" -> 0 [] c = "1" -> 1 [] c = "2" -> 2 [] c = "3" -> 3
    [] c = "4" -> 4 [] c = "5" -> 5 [] c = "6" -> 6 [] c = "7" -> 7
    [] c = "8" -> 8 [] c = "9" -> 9 [] OTHER -> -1

\* the number a string of decimal digits stands for (negative: not digits)
RECURSIVE Number(_)
Number(str) ==
  IF str = <<>> THEN 0
  ELSE IF DigitValue(str[Len(str)]) < 0 \/ Number(SubSeq(str, 1, Len(str) - 1)) < 0
       THEN -1
       ELSE 10 * Number(SubSeq(str, 1, Len(str) - 1)) + DigitValue(str[Len(str)])

\* generate_repo_tags has run in this run of the tag command
Generated == entry = "tag" /\ now # <<>>

\* C23: the tag is a function of the record and the clock value read for it:
\* a calver tag is YYYYMMDD-HHMM, zero padded, then "-" and the label; a
\* semver tag is semver, "-", label whatever the clock; equal inputs give
\* equal tags
C23_TagDeterministic ==
  Generated =>
    /\ \A i \in 1..Len(repos) :
         LET t == repos[i].tag
             l == repos[i].label
         IN /\ repos[i].tagtype = "semver" =>
                 /\ now[i] = "unread"
                 /\ Len(t) = Len(repos[i].semver) + 1 + Len(l)
                 /\ SubSeq(t, 1, Len(repos[i].semver)) = repos[i].semver
                 /\ t[Len(repos[i].semver) + 1] = "-"
                 /\ SubSeq(t, Len(repos[i].semver) + 2, Len(t)) = l
            /\ repos[i].tagtype = "calver" =>
                 /\ Len(t) = 14 + Len(l)
                 /\ Number(SubSeq(t, 1, 4)) = now[i].tm_year
                 /\ Number(SubSeq(t, 5, 6)) = now[i].tm_mon
                 /\ Number(SubSeq(t, 7, 8)) = now[i].tm_mday
                 /\ t[9] = "-"
                 /\ Number(SubSeq(t, 10, 11)) = now[i].tm_hour
                 /\ Number(SubSeq(t, 12, 13)) = now[i].tm_min
                 /\ t[14] = "-"
                 /\ SubSeq(t, 15, Len(t)) = l
                 /\ (now[i] = [tm_year |-> 2022, tm_mon |-> 2, tm_mday |-> 16,
                               tm_hour |-> 9, tm_min |-> 18] /\ l = <<"d", "e", "v">>)
                      => t = <<"2", "0", "2", "2", "0", "2", "1", "6", "-",
                               "0", "9", "1", "8", "-", "d", "e", "v">>
    /\ \A i, j \in 1..Len(repos) :
         (/\ repos[i].tagtype = repos[j].tagtype
          /\ repos[i].label = repos[j].label
          /\ repos[i].semver = repos[j].semver
          /\ repos[i].tagtype = "calver" => now[i] = now[j])
         => repos[i].tag = repos[j].tag

C23_Witness ==
  /\ entry = "tag"
  /\ pc = "get_confirmation"
  /\ Len(repos) = 2
  /\ repos[1].tagtype = "calver" /\ now[1].tm_mon = 2
  /\ repos[2].tagtype = "semver"
  /\ repos[2].tag = <<"1", ".", "2", "-", "r", "e", "l">>

\* C24: a section whose tag type is neither calver nor semver ends the run
\* before any request is sent and before any record has a tag: generation
\* never leaves some records tagged and the unrecognized one with an empty tag
C24_UnknownTagTypeAborts ==
  (entry = "tag" /\ \E i \in 1..Len(config) : config[i].tagtype \notin {"calver", "semver"})
  => /\ log = <<>>
     /\ \A i \in 1..Len(repos) : repos[i].tag = <<>>
     /\ now = <<>>
     /\ pc \in {"ingest_config", "exit"}
     /\ pc = "exit" => exitCode = 1

C24_Witness ==
  /\ entry = "tag"
  /\ pc = "exit"
  /\ Len(config) = 2
  /\ config[1].tagtype = "calver"
  /\ config[2].tagtype = "other"
  /\ log = <<>>

\* the requests of the log that wrote the commit of the record called `name`:
\* update_branch_config assigns repo_config.commit on every 200
CommitWrites(name) ==
  { k \in 1..Len(log) :
      log[k].op = "GET_branch" /\ log[k].repo = name /\ log[k].status = 200 }

\* C25: in one run of the tag command the commit of each record is written
\* exactly once, by commit resolution, and its tag exactly once, by tag
\* generation; nothing changes a record between generation and confirmation
C25_WrittenOnce ==
  entry = "tag" =>
    /\ \A i \in 1..Len(repos) : Cardinality(CommitWrites(repos[i].name)) <= 1
    /\ pc \in {"ingest_config", "check_repos", "tag_repos_check", "generate_repo_tags"}
         => \A i \in 1..Len(repos) : repos[i].tag = <<>>
    /\ Len(shown) = 1 =>
         \A i \in 1..Len(repos) : shown[1][i][3] = repos[i].tag

\* C26: for a record configured with both a branch and a commit the commit
\* takes precedence: the record keeps the configured commit, and that commit
\* is the one verified and tagged
C26_CommitPrecedence ==
  entry = "tag" =>
    \A i \in 1..Len(config) :
      (config[i].branch # "" /\ config[i].commit # "") =>
        /\ repos[i].commit = config[i].commit
        /\ \A k \in 1..Len(log) :
             (log[k].op = "POST_tag" /\ log[k].repo = config[i].name)
               => log[k].req.object = config[i].commit

\* C27: when commit resolution fails for a record the batch stops: after a
\* check_repos call that returned False the run ends, it does not go on to
\* tag generation, the confirmation or a publish POST
C27_FailureStopsBatch ==
  (entry = "tag" /\ \E k \in 1..Len(checkRet) : checkRet[k] = FALSE) =>
    /\ pc = "exit"
    /\ now = <<>>
    /\ answers = <<>>
    /\ \A k \in 1..Len(log) : log[k].op \notin {"POST_tag", "POST_ref"}

----------------------------------------------------------------------------
(* The commands: release_tool.tag (lines 270-308) and release_tool.release  *)
(* run from the command line, followed stage by stage                      *)

\* the command lines followed: `tag` with its --verify and --publish flags,
\* `release` with its --verify flag
CommandLines ==
  { [command |-> "tag", verify |-> v, publish |-> p] : v \in BOOLEAN, p \in BOOLEAN }
    \cup { [command |-> "release", verify |-> v, publish |-> FALSE] : v \in BOOLEAN }

\* the records of the configuration file: each one publishes a container
CommandLists ==
  { f \in VerifyLists :
      \A i \in 1..Len(f) : f[i].container_registry = "dockerhub" }

\* the tag the run works with
CommandTag == <<"t">>

\* outcomes of one record in check_repos
CheckResults == {"true", "false", "fatal"}

\* outcomes of ghlib.tag_repo for one record: True, False, error()
TagRepoResults == {"true", "false", "fatal"}

\* outcomes of monitor_workflows: it returns, or error() / an exception ends it
MonitorResults == {"returned", "fatal"}

\* release, lines 352 and 372: whether release verifies the containers itself; invoked
\* by tag through ctx.invoke the option takes its default, True
release_verify(opts) == IF opts.command = "tag" THEN TRUE ELSE opts.verify

tag_next_VerifyFirst(stage, result, opts) ==
  CASE stage = "check_repos" ->
         IF result = "true" THEN "tag_repos_check" ELSE "exit1"
    [] stage = "tag_repos_check" ->
         IF result = "fatal" THEN "exit1" ELSE "generate_repo_tags"
    [] stage = "generate_repo_tags" -> "get_confirmation"
    [] stage = "get_confirmation" ->
         IF result = "accepted" THEN "tag_repo" ELSE "exit1"
    [] stage = "tag_repo" ->
         IF result # "true" THEN "exit1"
         ELSE IF opts.verify THEN "verify_containers" ELSE "verify_prompt"
    [] stage = "verify_prompt" ->
         IF result = "accepted" THEN "verify_containers" ELSE "exit0"
    [] stage = "verify_containers" ->
         IF result = "passed" THEN "monitor_workflows" ELSE "exit1"
    [] stage = "monitor_workflows" ->
         IF result # "returned" THEN "exit1"
         ELSE IF opts.publish THEN "publish_prompt" ELSE "exit0"
    [] stage = "publish_prompt" ->
         IF result = "accepted" THEN "release_token" ELSE "exit0"
    [] stage = "release_token" ->
         IF result # "valid" THEN "exit1"
         ELSE IF release_verify(opts) THEN "release_verify" ELSE "mkdtemp"
    [] stage = "release_verify" ->
         IF result = "passed" THEN "mkdtemp" ELSE "exit1"
    [] OTHER -> "exit1"

\* tag, lines 285-308, tag_repos, lines 155-165, and release, lines 370-374:
\* the stage that follows `stage` once it has ended with `result`
\* ("exit0": sys.exit(0); "exit1": error() or an exception)
tag_next(stage, result, opts) ==
  CASE stage = "check_repos" ->
         IF result = "true" THEN "tag_repos_check" ELSE "exit1"
    [] stage = "tag_repos_check" ->
         IF result = "fatal" THEN "exit1" ELSE "generate_repo_tags"
    [] stage = "generate_repo_tags" -> "get_confirmation"
    [] stage = "get_confirmation" ->
         IF result = "accepted" THEN "tag_repo" ELSE "exit1"
    [] stage = "tag_repo" ->
         IF result # "true" THEN "exit1"
         ELSE IF opts.verify THEN "monitor_workflows" ELSE "verify_prompt"
    [] stage = "verify_prompt" ->
         IF result = "accepted" THEN "monitor_workflows" ELSE "exit0"
    [] stage = "monitor_workflows" ->
         IF result = "returned" THEN "verify_containers" ELSE "exit1"
    [] stage = "verify_containers" ->
         IF result # "passed" THEN "exit1"
         ELSE IF opts.publish THEN "publish_prompt" ELSE "exit0"
    [] stage = "publish_prompt" ->
         IF result = "accepted" THEN "release_token" ELSE "exit0"
    [] stage = "release_token" ->
         IF result # "valid" THEN "exit1"
         ELSE IF release_verify(opts) THEN "release_verify" ELSE "mkdtemp"
    [] stage = "release_verify" ->
         IF result = "passed" THEN "mkdtemp" ELSE "exit1"
    [] OTHER -> "exit1"

\* an entry of the history: the stage, the record it worked on (0: the stage
\* works on the batch as a whole) and how it went
Stage(stage, record, result) == [stage |-> stage, record |-> record, result |-> result]

CmdInit ==
  /\ entry = "command"
  /\ options \in CommandLines
  /\ pc = IF options.command = "tag" THEN "check_repos" ELSE "release_token"
  /\ idx = 1
  /\ token = <<"g", "h", "p", "_", "a">>
  /\ now = <<>>
  /\ repos \in CommandLists
  /\ log = <<>>
  /\ hostTags = {}
  /\ hostRefs = {}
  /\ checkRet = <<>>
  /\ answers = <<>>
  /\ shown = <<>>
  /\ checked = [i \in 1..Len(repos) |-> <<>>]
  /\ publishRet = [i \in 1..Len(repos) |-> "none"]
  /\ tag_sha = ""
  /\ exitCode = "none"
  /\ MonitorIdle
  /\ VerifyIdle
  /\ ReleaseIdle
  /\ config = repos
  /\ ManifestIdle
  /\ stages = <<>>
  /\ approved = FALSE

\* the variables the stages of a command do not use
cmdFrame == <<token, now, repos, log, hostTags, hostRefs, checkRet, answers,
              shown, checked, publishRet, tag_sha, options>>

\* control passes to `target`; release itself runs as in the chart release
Goto(target) ==
  /\ idx' = 1
  /\ CASE target = "exit1" -> pc' = "exit" /\ exitCode' = 1 /\ UNCHANGED entry
       [] target = "exit0" -> pc' = "exit" /\ exitCode' = 0 /\ UNCHANGED entry
       [] target = "mkdtemp" -> pc' = "mkdtemp" /\ entry' = "release" /\ UNCHANGED exitCode
       [] OTHER -> pc' = target /\ UNCHANGED <<entry, exitCode>>

\* a stage that works on the batch as a whole ends with `result`
WholeStage(result) ==
  /\ stages' = Append(stages, Stage(pc, 0, result))
  /\ Goto(tag_next(pc, result, options))

\* a stage that loops over `records` has handled the record at idx: the loop
\* goes on to the next record, or the stage ends with `result`
RecordStage(records, result, goes_on, at_end) ==
  /\ stages' = Append(stages, Stage(pc, idx, result))
  /\ IF goes_on /\ idx < Len(records)
     THEN idx' = idx + 1 /\ UNCHANGED <<entry, pc, exitCode>>
     ELSE Goto(tag_next(pc, IF goes_on THEN at_end ELSE result, options))

\* check_repos called by tag (line 285) and by tag_repos (line 155): one record
CheckRecord ==
  /\ entry = "command"
  /\ pc \in {"check_repos", "tag_repos_check"}
  /\ \E r \in CheckResults :
       RecordStage(repos, r, check_repos_step(r) = "continue", "true")
  /\ UNCHANGED <<cmdFrame, approved, monVars, verVars, relVars, config, manVars>>

\* generate_repo_tags, lines 141-144: one record
GenerateRecord ==
  /\ entry = "command"
  /\ pc = "generate_repo_tags"
  /\ RecordStage(repos, "tagged", TRUE, "tagged")
  /\ UNCHANGED <<cmdFrame, approved, monVars, verVars, relVars, config, manVars>>

\* tag_repos, lines 157-158: get_confirmation, then error() unless confirmed
Confirm ==
  /\ entry = "command"
  /\ pc = "get_confirmation"
  /\ \E resp \in Answers :
       WholeStage(IF get_confirmation(resp) THEN "accepted" ELSE "declined")
  /\ UNCHANGED <<cmdFrame, approved, monVars, verVars, relVars, config, manVars>>

\* tag_repos, lines 161-164: ghlib.tag_repo for one record
PublishRecord ==
  /\ entry = "command"
  /\ pc = "tag_repo"
  /\ \E r \in TagRepoResults :
       RecordStage(repos, r, r = "true", "true")
  /\ UNCHANGED <<cmdFrame, approved, monVars, verVars, relVars, config, manVars>>

\* tag, lines 288-291: "Verify container creation? [y/N]"
VerifyPrompt ==
  /\ entry = "command"
  /\ pc = "verify_prompt"
  /\ \E resp \in Answers :
       WholeStage(IF prompt_accepts(resp) THEN "accepted" ELSE "declined")
  /\ UNCHANGED <<cmdFrame, approved, monVars, verVars, relVars, config, manVars>>

\* tag, line 295: ctx.invoke(monitor_workflows, ...) until it returns or exits
MonitorWorkflows ==
  /\ entry = "command"
  /\ pc = "monitor_workflows"
  /\ \E r \in MonitorResults : WholeStage(r)
  /\ UNCHANGED <<cmdFrame, approved, monVars, verVars, relVars, config, manVars>>

\* verify_containers invoked by tag (line 297) and by release (line 374):
\* find_container for one record
VerifyRecord ==
  /\ entry = "command"
  /\ pc \in {"verify_containers", "release_verify"}
  /\ \E st \in ContainerStatuses :
       LET repo == registry_repos(repos)[idx]
           found == find_container(container_url(repo, CommandTag), st)
       IN RecordStage(registry_repos(repos),
                      IF found = "true" THEN "found" ELSE "missing",
                      verify_containers_step(found) = "next", "passed")
  /\ UNCHANGED <<cmdFrame, approved, monVars, verVars, relVars, config, manVars>>

\* tag, lines 298-304: the chart version is read, then "Publish chart ... [y/N]?"
PublishPrompt ==
  /\ entry = "command"
  /\ pc = "publish_prompt"
  /\ \E resp \in Answers :
       /\ WholeStage(IF prompt_accepts(resp) THEN "accepted" ELSE "declined")
       /\ approved' = prompt_accepts(resp)
  /\ UNCHANGED <<cmdFrame, monVars, verVars, relVars, config, manVars>>

\* release, lines 365-371: the token is checked; st is the answer of GET api.github.com
ReleaseToken ==
  /\ entry = "command"
  /\ pc = "release_token"
  /\ \E st \in RootStatuses :
       WholeStage(IF valid_gh_token(token, st).ok THEN "valid" ELSE "invalid")
  /\ UNCHANGED <<cmdFrame, approved, monVars, verVars, relVars, config, manVars>>

\* release has returned: tag prints "Release tagged and published" and calls
\* sys.exit(0) (lines 305-308); the release command ends and the process
\* exits with code 0
ReleaseReturns ==
  /\ entry = "release"
  /\ pc = "returned"
  /\ stages' = Append(stages, Stage("released", 0, "returned"))
  /\ pc' = "exit"
  /\ exitCode' = 0
  /\ UNCHANGED <<entry, idx>>
  /\ UNCHANGED <<cmdFrame, approved, monVars, verVars, relVars, config, manVars>>

CmdNext ==
  \/ CheckRecord
  \/ GenerateRecord
  \/ Confirm
  \/ PublishRecord
  \/ VerifyPrompt
  \/ MonitorWorkflows
  \/ VerifyRecord
  \/ PublishPrompt
  \/ ReleaseToken
  \/ Mkdtemp
  \/ CheckoutRepo
  \/ CheckoutBranch
  \/ ReplaceAppver
  \/ ReplaceTags
  \/ AddFile
  \/ Commit
  \/ GenerateHelmPackage
  \/ Push
  \/ Finally
  \/ ReleaseReturns

SpecCommand == CmdInit /\ [][CmdNext]_vars

----------------------------------------------------------------------------
(* Properties of the commands *)

\* the place of a stage in the flow commit resolution, tag generation,
\* operator confirmation, tag publication, workflow monitoring, container
\* verification, chart release
Rank(stage) ==
  CASE stage \in {"check_repos", "tag_repos_check"} -> 1
    [] stage = "generate_repo_tags" -> 2
    [] stage = "get_confirmation" -> 3
    [] stage \in {"tag_repo", "verify_prompt"} -> 4
    [] stage = "monitor_workflows" -> 5
    [] stage \in {"verify_containers", "publish_prompt"} -> 6
    [] OTHER -> 7

\* before the entry at k, every record of `records` has an entry of `stage`
\* with `result`
FinishedBefore(k, stage, records, result) ==
  \A i \in records :
    \E j \in 1..(k - 1) : stages[j] = Stage(stage, i, result)

AllRecords == 1..Len(repos)

\* C28: in a run of the tag command the stages occur in the order commit
\* resolution, tag generation, operator confirmation, tag publication,
\* workflow monitoring, container verification, chart release, and a stage
\* starts only after the one before it has finished for all records; container
\* verification starts only after the monitor has returned and the chart
\* release only after container verification has passed
C28_StageOrder ==
  (options.command = "tag") =>
    /\ \A j, k \in 1..Len(stages) :
         j < k => Rank(stages[j].stage) <= Rank(stages[k].stage)
    /\ \A k \in 1..Len(stages) :
         LET st == stages[k].stage
         IN /\ st = "generate_repo_tags" => FinishedBefore(k, "check_repos", AllRecords, "true")
            /\ st = "get_confirmation" => FinishedBefore(k, "generate_repo_tags", AllRecords, "tagged")
            /\ st = "tag_repo" => FinishedBefore(k, "get_confirmation", {0}, "accepted")
            /\ st = "monitor_workflows" => FinishedBefore(k, "tag_repo", AllRecords, "true")
            /\ st = "verify_containers" => FinishedBefore(k, "monitor_workflows", {0}, "returned")
            /\ st \in {"release_token", "release_verify", "released"} =>
                 FinishedBefore(k, "verify_containers", AllRecords, "found")
    /\ done # <<>> =>
         /\ FinishedBefore(Len(stages) + 1, "monitor_workflows", {0}, "returned")
         /\ FinishedBefore(Len(stages) + 1, "verify_containers", AllRecords, "found")
         /\ FinishedBefore(Len(stages) + 1, "release_verify", AllRecords, "found")

C28_Witness ==
  /\ options.command = "tag"
  /\ Len(repos) = 2
  /\ pushed = {"A", "B"}
  /\ pc = "exit"
  /\ exitCode = 0
  /\ \E k \in 1..Len(stages) : stages[k].stage = "verify_prompt"

\* a stage or a step of the run failed: a record could not be resolved,
\* tagged or verified, the monitor did not return, the token was refused, or a
\* step of release did not do what it is there for
StageFailed ==
  \/ \E k \in 1..Len(stages) :
       stages[k].result \in {"false", "fatal", "missing", "invalid"}
  \/ \E k \in 1..Len(done) : ~Succeeded(done[k].result)

\* C29: no push of repository A or B is issued unless the operator approved
\* the chart publish earlier in the run, whichever command reached release
C29_PushGated ==
  \A k \in 1..Len(done) : done[k].step \in {"push_A", "push_B"} => approved

\* C30: the process exits with code 1 whenever a fatal error occurred and
\* with code 0 only when every stage it ran succeeded fully
C30_ExitCodes ==
  pc = "exit" => (exitCode = 0 => ~StageFailed)

----------------------------------------------------------------------------
(* The standalone scripts: retag_commit.py (entry, set_commit, tag_repo) and *)
(* tag_releases.py (tag_repo), next to ghlib.tag_repo                       *)

\* the three implementations of tag_repo
Variants == {"ghlib", "tag_releases", "retag_commit"}

\* retag_commit.RepoInfo
RetagInfo(name, label, tagtype, new_tag, old_tag, commit) ==
  [name |-> name, label |-> label, tagtype |-> tagtype, new_tag |-> new_tag,
   old_tag |-> old_tag, commit |-> commit]

\* the records retag_commit.ingest_config makes of a section [tag1]: the
\* section may carry a commit setting
RetagOf(i) ==
  { RetagInfo(RepoName(i), <<"s", "t">>, "calver", <<>>, "tag1", c) : c \in {"", "c0"} }

RetagLists ==
  UNION { { f \in [1..n -> UNION { RetagOf(i) : i \in 1..n }] :
              \A i \in 1..n : f[i] \in RetagOf(i) } : n \in 1..MaxRepos }

\* records a caller can hand to retag_commit.set_commit or tag_repo directly
RetagRecords ==
  { RetagInfo("repo1", <<"s", "t">>, "calver", t, old, c) :
      t \in {<<"t">>}, old \in {"", "tag1"}, c \in {"", "c0"} }

\* answers of GET /git/refs/tags/{old_tag} and of GET {object url}
LookupStatuses == {200, 404, 500}

\* the entry points followed, and the tag_repo each one runs
VariantOf(e) ==
  CASE e = "ghlib.tag_repo" -> "ghlib"
    [] e = "tag_releases.tag_repo" -> "tag_releases"
    [] OTHER -> "retag_commit"

\* retag_commit.entry, lines 313-316: a token that does not look like one is
\* dropped (None) and the run continues
retag_token(tok) ==
  IF tok = <<>> \/ ~startswith(tok, <<"g", "h", "p">>) THEN <<>> ELSE tok

\* retag_commit.generate_tag
retag_generate_tag(repo, date) ==
  CASE repo.tagtype = "calver" -> generate_calver(date) \o <<"-">> \o repo.label
    [] OTHER -> repo.new_tag \o <<"-">> \o repo.label

\* retag_commit.verify_commit and tag_releases.verify_commit: without a commit
\* error() ends the process
script_verify_commit(commit, st) ==
  IF commit = ""
  THEN [ret |-> "fatal", sent |-> FALSE]
  ELSE CASE st = 404 -> [ret |-> "false", sent |-> TRUE]
         [] st = 422 -> [ret |-> "false", sent |-> TRUE]
         [] st = 200 -> [ret |-> "true", sent |-> TRUE]
         [] OTHER -> [ret |-> "fatal", sent |-> TRUE]

\* retag_commit.set_commit, lines 210-220: the request for the tag ref
set_commit_ref(repo_config, st) ==
  IF repo_config.old_tag = "" THEN [ret |-> "exit", sent |-> FALSE]
  ELSE IF st = 200 THEN [ret |-> "next", sent |-> TRUE]
  ELSE [ret |-> "exit", sent |-> TRUE]

\* retag_commit.set_commit, lines 221-227: the request for the tag object
set_commit_object(repo_config, st, sha) ==
  IF st = 200
  THEN [ret |-> "set", repo |-> [repo_config EXCEPT !.commit = sha]]
  ELSE [ret |-> "exit", repo |-> repo_config]

\* the first test of tag_repo: ghlib asks valid_gh_token, the scripts look at
\* the string (tag_releases 256, retag_commit 253)
token_check(variant, tok, st) ==
  IF variant = "ghlib" THEN valid_gh_token(tok, st)
  ELSE [ok |-> (tok # <<>> /\ startswith(tok, <<"g", "h", "p">>)), sent |-> FALSE]

commit_check_Skipped(variant, commit, st) == [ret |-> "true", sent |-> FALSE]

\* tag_repo: the commit is looked up before the first POST (ghlib 99,
\* tag_releases 262, retag_commit 259)
commit_check(variant, commit, st) ==
  IF variant = "ghlib" THEN verify_commit(commit, st)
  ELSE script_verify_commit(commit, st)

\* the tag a variant publishes
published_tag(variant, repo_config) ==
  IF variant = "retag_commit" THEN repo_config.new_tag ELSE repo_config.tag

\* body of the POST to /git/tags
VariantTagPayload(variant, repo_config) ==
  [owner |-> "ssl-hep", repo |-> repo_config.name,
   tag |-> published_tag(variant, repo_config),
   object |-> repo_config.commit, type |-> "commit"]

ScriptInit ==
  /\ entry \in {"retag", "set_commit", "ghlib.tag_repo", "tag_releases.tag_repo",
                "retag_commit.tag_repo"}
  /\ token \in Tokens
  /\ CASE entry = "retag" -> repos \in RetagLists /\ pc = "retag_token"
       [] entry = "set_commit" ->
            repos \in { <<r>> : r \in RetagRecords } /\ pc = "set_commit_ref"
       [] entry = "retag_commit.tag_repo" ->
            repos \in { <<r>> : r \in RetagRecords } /\ pc = "variant_token"
       [] OTHER -> repos \in { <<r>> : r \in PublishRecords } /\ pc = "variant_token"
  /\ idx = 1
  /\ now = <<>>
  /\ log = <<>>
  /\ hostTags = {}
  /\ hostRefs = {}
  /\ checkRet = <<>>
  /\ answers = <<>>
  /\ shown = <<>>
  /\ checked = [i \in 1..Len(repos) |-> <<>>]
  /\ publishRet = [i \in 1..Len(repos) |-> "none"]
  /\ tag_sha = ""
  /\ exitCode = "none"
  /\ MonitorIdle
  /\ VerifyIdle
  /\ ReleaseIdle
  /\ config = repos
  /\ ManifestIdle
  /\ CommandIdle

\* retag_commit.entry, lines 313-316
RetagToken ==
  /\ entry = "retag"
  /\ pc = "retag_token"
  /\ token' = retag_token(token)
  /\ pc' = "retag_check"
  /\ UNCHANGED <<entry, idx, now, repos, log, hostTags, hostRefs, checkRet, answers,
                 shown, checked, publishRet, tag_sha, exitCode>>
  /\ UNCHANGED <<monVars, verVars, relVars, extVars>>

\* retag_commit.check_repos, one record: called by entry (line 322), where a
\* False makes error() end the run, and by tag_repos (line 237), which drops
\* the result
RetagCheck ==
  /\ entry = "retag"
  /\ pc \in {"retag_check", "retag_tag_repos_check"}
  /\ \E st \in CommitStatuses :
       LET v == script_verify_commit(repos[idx].commit, st)
           after == IF pc = "retag_check" THEN "retag_tag_repos_check"
                    ELSE "retag_generate"
       IN /\ log' = IF v.sent
                    THEN Append(log, Req("GET_commit", repos[idx].name, st,
                                         [commit |-> repos[idx].commit,
                                          call |-> "check_repos"], <<>>))
                    ELSE log
          /\ CASE v.ret = "fatal" -> Abort /\ UNCHANGED <<idx, checkRet>>
               [] v.ret = "false" ->
                    /\ checkRet' = Append(checkRet, FALSE)
                    /\ IF pc = "retag_check"
                       THEN Abort /\ UNCHANGED idx
                       ELSE pc' = after /\ idx' = 1 /\ UNCHANGED exitCode
               [] OTHER ->
                    IF idx < Len(repos)
                    THEN idx' = idx + 1 /\ UNCHANGED <<pc, checkRet, exitCode>>
                    ELSE /\ checkRet' = Append(checkRet, TRUE)
                         /\ pc' = after /\ idx' = 1 /\ UNCHANGED exitCode
  /\ UNCHANGED <<entry, token, now, repos, hostTags, hostRefs, answers, shown,
                 checked, publishRet, tag_sha>>
  /\ UNCHANGED <<monVars, verVars, relVars, extVars>>

\* retag_commit.generate_repo_tags: every record gets its new tag
RetagGenerate ==
  /\ entry = "retag"
  /\ pc = "retag_generate"
  /\ \E t \in 1..Len(Clocks) :
       /\ now' = [i \in 1..Len(repos) |-> Clocks[t]]
       /\ repos' = [i \in 1..Len(repos) |->
                      [repos[i] EXCEPT !.new_tag = retag_generate_tag(repos[i], Clocks[t])]]
  /\ pc' = "retag_confirm"
  /\ UNCHANGED <<entry, idx, token, log, hostTags, hostRefs, checkRet, answers,
                 shown, checked, publishRet, tag_sha, exitCode>>
  /\ UNCHANGED <<monVars, verVars, relVars, extVars>>

\* retag_commit.get_confirmation and the test of its result in tag_repos
RetagConfirm ==
  /\ entry = "retag"
  /\ pc = "retag_confirm"
  /\ \E resp \in Answers :
       /\ answers' = Append(answers, resp)
       /\ shown' = Append(shown, [i \in 1..Len(repos) |->
                            <<repos[i].name, repos[i].commit, repos[i].old_tag,
                              repos[i].new_tag>>])
       /\ IF get_confirmation(resp)
          THEN pc' = "variant_token" /\ idx' = 1 /\ UNCHANGED exitCode
          ELSE Abort /\ UNCHANGED idx
  /\ UNCHANGED <<entry, token, now, repos, log, hostTags, hostRefs, checkRet,
                 checked, publishRet, tag_sha>>
  /\ UNCHANGED <<monVars, verVars, relVars, extVars>>

\* tag_repo returns `val`: a direct call ends; in tag_repos a False makes
\* error() abort, a True goes on to the next record and, after the last one,
\* to sys.exit(0) (retag_commit.entry, line 324)
VariantReturns(val) ==
  /\ publishRet' = [publishRet EXCEPT ![idx] = IF val THEN "true" ELSE "false"]
  /\ IF entry # "retag"
     THEN pc' = "returned" /\ UNCHANGED <<idx, exitCode>>
     ELSE IF ~val
          THEN Abort /\ UNCHANGED idx
          ELSE IF idx < Len(repos)
               THEN pc' = "variant_token" /\ idx' = idx + 1 /\ UNCHANGED exitCode
               ELSE pc' = "exit" /\ exitCode' = 0 /\ UNCHANGED idx

\* tag_repo: the token test, then the test that the record has a commit
VariantToken ==
  /\ pc = "variant_token"
  /\ \E st \in RootStatuses :
       LET v == token_check(VariantOf(entry), token, st)
       IN /\ log' = IF v.sent
                    THEN Append(log, Req("GET_root", repos[idx].name, st, <<>>, <<>>))
                    ELSE log
          /\ IF ~v.ok
             THEN /\ checked' = [checked EXCEPT ![idx] = <<"token">>]
                  /\ VariantReturns(FALSE)
             ELSE /\ checked' = [checked EXCEPT ![idx] = <<"token", "commit">>]
                  /\ IF repos[idx].commit = ""
                     THEN VariantReturns(FALSE)
                     ELSE pc' = "variant_verify"
                          /\ UNCHANGED <<idx, publishRet, exitCode>>
  /\ UNCHANGED <<entry, token, now, repos, hostTags, hostRefs, checkRet, answers,
                 shown, tag_sha>>
  /\ UNCHANGED <<monVars, verVars, relVars, extVars>>

\* tag_repo: verify_commit
VariantVerify ==
  /\ pc = "variant_verify"
  /\ \E st \in CommitStatuses :
       LET v == commit_check(VariantOf(entry), repos[idx].commit, st)
       IN /\ log' = IF v.sent
                    THEN Append(log, Req("GET_commit", repos[idx].name, st,
                                         [commit |-> repos[idx].commit,
                                          call |-> "tag_repo"], <<>>))
                    ELSE log
          /\ checked' = [checked EXCEPT ![idx] = Append(@, "verify")]
          /\ CASE v.ret = "true" -> pc' = "variant_post_tag"
                                    /\ UNCHANGED <<idx, publishRet, exitCode>>
               [] v.ret = "false" -> VariantReturns(FALSE)
               [] OTHER -> Abort /\ UNCHANGED <<idx, publishRet>>
  /\ UNCHANGED <<entry, token, now, repos, hostTags, hostRefs, checkRet, answers,
                 shown, tag_sha>>
  /\ UNCHANGED <<monVars, verVars, relVars, extVars>>

\* tag_repo: POST /git/tags; any answer but 201 makes error() end the process
VariantPostTag ==
  /\ pc = "variant_post_tag"
  /\ \E st \in PostStatuses, sha \in TagShas :
       LET body == VariantTagPayload(VariantOf(entry), repos[idx])
       IN /\ log' = Append(log, Req("POST_tag", repos[idx].name, st, body,
                                    [sha |-> IF st = 201 THEN sha ELSE ""]))
          /\ hostTags' = IF st = 201
                         THEN hostTags \cup {[repo |-> body.repo, tag |-> body.tag,
                                              object |-> body.object, sha |-> sha]}
                         ELSE hostTags
          /\ IF TagPostFailed(st)
             THEN Abort /\ UNCHANGED tag_sha
             ELSE pc' = "variant_post_ref" /\ tag_sha' = sha /\ UNCHANGED exitCode
  /\ UNCHANGED <<entry, idx, token, now, repos, hostRefs, checkRet, answers,
                 shown, checked, publishRet>>
  /\ UNCHANGED <<monVars, verVars, relVars, extVars>>

\* tag_repo: POST /git/refs; any answer but 201 makes error() end the process
VariantPostRef ==
  /\ pc = "variant_post_ref"
  /\ \E st \in PostStatuses :
       LET ref == <<"r", "e", "f", "s", "/", "t", "a", "g", "s", "/">>
                    \o published_tag(VariantOf(entry), repos[idx])
       IN /\ log' = Append(log, Req("POST_ref", repos[idx].name, st,
                                    [ref |-> ref, sha |-> tag_sha], <<>>))
          /\ hostRefs' = IF st = 201
                         THEN hostRefs \cup {[repo |-> repos[idx].name,
                                              ref |-> ref, sha |-> tag_sha]}
                         ELSE hostRefs
          /\ IF RefPostFailed(st)
             THEN Abort /\ UNCHANGED <<idx, publishRet>>
             ELSE VariantReturns(TRUE)
  /\ UNCHANGED <<entry, token, now, repos, hostTags, checkRet, answers, shown,
                 checked, tag_sha>>
  /\ UNCHANGED <<monVars, verVars, relVars, extVars>>

\* retag_commit.set_commit, lines 210-220: GET /git/refs/tags/{old_tag}
SetCommitRef ==
  /\ entry = "set_commit"
  /\ pc = "set_commit_ref"
  /\ \E st \in LookupStatuses :
       LET u == set_commit_ref(repos[1], st)
       IN /\ log' = IF u.sent
                    THEN Append(log, Req("GET_tagref", repos[1].name, st,
                                         [tag |-> repos[1].old_tag], <<>>))
                    ELSE log
          /\ IF u.ret = "next"
             THEN pc' = "set_commit_object" /\ UNCHANGED exitCode
             ELSE Abort
  /\ UNCHANGED <<entry, idx, token, now, repos, hostTags, hostRefs, checkRet,
                 answers, shown, checked, publishRet, tag_sha>>
  /\ UNCHANGED <<monVars, verVars, relVars, extVars>>

\* retag_commit.set_commit, lines 221-227: GET of the tag object
SetCommitObject ==
  /\ entry = "set_commit"
  /\ pc = "set_commit_object"
  /\ \E st \in LookupStatuses, sha \in Shas :
       LET u == set_commit_object(repos[1], st, sha)
       IN /\ log' = Append(log, Req("GET_tagobject", repos[1].name, st,
                                    [tag |-> repos[1].old_tag], [sha |-> sha]))
          /\ repos' = [repos EXCEPT ![1] = u.repo]
          /\ IF u.ret = "set"
             THEN pc' = "returned" /\ UNCHANGED exitCode
             ELSE Abort
  /\ UNCHANGED <<entry, idx, token, now, hostTags, hostRefs, checkRet,
                 answers, shown, checked, publishRet, tag_sha>>
  /\ UNCHANGED <<monVars, verVars, relVars, extVars>>

ScriptNext ==
  \/ RetagToken
  \/ RetagCheck
  \/ RetagGenerate
  \/ RetagConfirm
  \/ VariantToken
  \/ VariantVerify
  \/ VariantPostTag
  \/ VariantPostRef
  \/ SetCommitRef
  \/ SetCommitObject

SpecScripts == ScriptInit /\ [][ScriptNext]_vars

----------------------------------------------------------------------------
(* Properties of the standalone scripts *)

\* the log entries of `ops` for the record called `name`
Requests(ops, name) ==
  { k \in 1..Len(log) : log[k].op \in ops /\ log[k].repo = name }

\* C31: in the retag flow each record's commit is resolved from its old tag
\* by the tag-to-commit lookup (tag ref, then tag object) before the commit is
\* verified and the new tag published; the lookup sets commit only when both
\* requests return 200 and ends the run, commit unchanged, on any other status
C31_ResolvedFromOldTag ==
  /\ entry = "retag" =>
       \A k \in 1..Len(log) :
         log[k].op \in {"GET_commit", "POST_tag"} =>
           \E i, j \in 1..(k - 1) :
             /\ i < j
             /\ log[i].op = "GET_tagref" /\ log[i].repo = log[k].repo /\ log[i].status = 200
             /\ log[j].op = "GET_tagobject" /\ log[j].repo = log[k].repo /\ log[j].status = 200
  /\ (entry = "retag" /\ pc = "exit" /\ exitCode = 0) =>
       \A i \in 1..Len(repos) :
         \E j \in Requests({"GET_tagobject"}, repos[i].name) :
           log[j].status = 200 /\ log[j].resp.sha = repos[i].commit
  /\ entry = "set_commit" =>
       /\ repos[1].commit # config[1].commit =>
            /\ Len(log) = 2
            /\ log[1].op = "GET_tagref" /\ log[1].status = 200
            /\ log[2].op = "GET_tagobject" /\ log[2].status = 200
            /\ repos[1].commit = log[2].resp.sha
       /\ (\E k \in 1..Len(log) : log[k].status # 200) =>
            pc = "exit" /\ repos = config
       /\ pc = "returned" => Len(log) = 2

----------------------------------------------------------------------------
(* Further properties of workflow monitoring *)

\* C32: the polling loop returns normally only directly after a completion
\* check that found every tracked run terminal; each sweep renders the current
\* state before its completion check; between two consecutive completion
\* checks exactly one sleep occurs (the k-th check follows k-1 sleeps, and a
\* sleep follows only a check that returned False)
C32_SweepOrder ==
  [][ /\ (mpc' = "returned" /\ mpc # "returned") =>
           /\ mpc = "final_render"
           /\ verdicts # <<>> /\ verdicts[Len(verdicts)]
           /\ Len(seen) = Len(Tracked)
           /\ \A k \in 1..Len(seen) :
                seen[k].status_code = 200 /\ seen[k].conclusion \in TerminalSet
      /\ (mpc' = "final_render" /\ mpc # "final_render") =>
           /\ mpc = "complete"
           /\ verdicts' = Append(verdicts, TRUE)
      /\ (mpc' = "complete" /\ mpc # "complete") =>
           /\ mpc = "render"
           /\ cursor > Len(Tracked)
      /\ verdicts' # verdicts =>
           /\ mpc = "complete"
           /\ Len(verdicts') = sleeps + 1
      /\ sleeps' # sleeps =>
           /\ sleeps' = sleeps + 1
           /\ sleeps' = Len(verdicts)
           /\ ~verdicts[Len(verdicts)]
           /\ mpc' = "render" ]_vars

C32_Witness ==
  /\ mpc = "returned"
  /\ Len(Tracked) >= 1
  /\ sleeps = 2
  /\ verdicts = <<FALSE, FALSE, TRUE>>

----------------------------------------------------------------------------
(* Further properties of the tag pipeline *)

\* the token looks like a personal access token
WellFormed(tok) == tok # <<>> /\ startswith(tok, <<"g", "h", "p">>)

\* C33: the credential precondition of publish is a format check only: its
\* outcome is a function of the token string alone and evaluating it sends no
\* request to the host, so a well-formed token passes whatever the host answers
C33_FormatCheckOnly ==
  /\ \A k \in 1..Len(log) : log[k].op # "GET_root"
  /\ \A i \in 1..Len(checked) :
       checked[i] # <<>> => (Len(checked[i]) > 1 <=> WellFormed(token))

\* C34: a 404 answered to a repository's discovery list query is handled
\* fail-fast: discovery stops at that repository, no later repository is
\* queried and the polling loop is not entered
C34_DiscoveryFailFast ==
  \A i \in 1..Len(list_queries) :
    list_queries[i].status = 404 =>
      /\ i = Len(list_queries)
      /\ mpc = "exit"
      /\ verdicts = <<>>

\* the positions inside ghlib.tag_repo
InTagRepo == pc \in {"tag_repo_token", "tag_repo_verify", "tag_repo_post_tag",
                     "tag_repo_post_ref"}

\* C35: publishing leaves the record unchanged: no step of tag_repo (success,
\* precondition failure, POST failure) modifies a field of a record, and
\* neither does the confirmation, so the tag and the commit sent in the POSTs
\* are those the record had at the confirmation gate, the tag being the one
\* shown to the operator
C35_PublishFrame ==
  [][ (InTagRepo \/ pc = "get_confirmation") =>
        /\ repos' = repos
        /\ (Len(log') > Len(log) /\ log'[Len(log')].op = "POST_tag") =>
             /\ log'[Len(log')].req.tag = repos[idx].tag
             /\ log'[Len(log')].req.object = repos[idx].commit
             /\ entry = "tag" => log'[Len(log')].req.tag = shown[1][idx][3]
        /\ (Len(log') > Len(log) /\ log'[Len(log')].op = "POST_ref") =>
             /\ log'[Len(log')].req.ref =
                  <<"r", "e", "f", "s", "/", "t", "a", "g", "s", "/">> \o repos[idx].tag
             /\ entry = "tag" =>
                  log'[Len(log')].req.ref =
                    <<"r", "e", "f", "s", "/", "t", "a", "g", "s", "/">> \o shown[1][idx][3] ]_vars

C35_Witness ==
  /\ entry = "tag"
  /\ Len(repos) = 2
  /\ pc = "exit"
  /\ publishRet[1] = "true"
  /\ \E k \in 1..Len(log) : log[k].op = "POST_tag" /\ log[k].repo = "repo2" /\ log[k].status = 500
  /\ \A i \in 1..2 : repos[i].tag = shown[1][i][3]

\* release_tool.tag_repos, lines 160-165: `tag` is assigned in every pass of
\* the loop, so the value returned is the tag of the last record
tag_repos_return(repo_configs) ==
  IF repo_configs = <<>> THEN <<>> ELSE repo_configs[Len(repo_configs)].tag

\* C36: the single tag that tag_repos returns, and that tag passes to workflow
\* monitoring and container verification, equals the tag of every record
\* published in the batch
C36_ReturnedTagIsEveryTag ==
  (entry = "tag" /\ pc = "tagged") =>
    \A i \in 1..Len(repos) :
      publishRet[i] = "true" => repos[i].tag = tag_repos_return(repos)

\* the records that have received a request of `ops` from tag_repo
Reached(ops) ==
  { i \in 1..Len(repos) :
      \E k \in 1..Len(log) : log[k].op \in ops /\ log[k].repo = repos[i].name }

\* C37: tag_repos publishes the records in list order and the process ends at
\* the first record whose publish fails: the records that have received a tag
\* POST are a prefix of the list, no record after a failed one receives any
\* request, and what was published before the failure is not rolled back
C37_PublishPrefix ==
  /\ [](entry = "tag" =>
          /\ \A i, j \in 1..Len(repos) :
               (i < j /\ j \in Reached({"POST_tag"})) => i \in Reached({"POST_tag"})
          /\ \A i, j \in 1..Len(repos) :
               (i < j /\ j \in Reached({"GET_root", "GET_commit", "POST_tag", "POST_ref"}))
                 => publishRet[i] = "true"
          /\ \A i \in 1..Len(repos) :
               (publishRet[i] = "false" \/ (pc = "exit" /\ i = idx /\ checked[i] # <<>>))
                 => /\ pc = "exit"
                    /\ \A j \in (i + 1)..Len(repos) : checked[j] = <<>>)
  /\ [][hostTags \subseteq hostTags' /\ hostRefs \subseteq hostRefs']_vars

C37_Witness ==
  /\ entry = "tag"
  /\ Len(repos) = 2
  /\ pc = "exit"
  /\ publishRet = <<"true", "false">>
  /\ \E t \in hostTags : t.repo = "repo1"
  /\ \E r \in hostRefs : r.repo = "repo1"
  /\ Reached({"POST_tag"}) = {1}

\* the polling loop has been entered
Polling == mpc \in {"render", "complete", "sleep", "final_render", "returned"}

\* C38: started with neither a tag nor a time, once the operator accepts
\* monitoring around the current time, discovery issues the time-window list
\* query for every configured repository before the polling loop starts
C38_PromptThenDiscover ==
  (selector = "none" /\ Polling) =>
    /\ Len(list_queries) = Len(repos)
    /\ \A i \in 1..Len(repos) : list_queries[i].repo = repos[i].name
    /\ Len(workflow_info) = Len(repos)

----------------------------------------------------------------------------
(* The standalone check verify_docker_tags.py next to                      *)
(* release_tool.verify_containers                                          *)

\* records both programs read the same way: a DockerHub repository
\* (docker_repo of verify_docker_tags is container_repo of repoinfo) or none
DockerLists ==
  { f \in VerifyLists :
      \A i \in 1..Len(f) : f[i].container_registry \in {"", "dockerhub"} }

\* verify_docker_tags.verify_tag: only a 404 says the tag is missing
verify_tag(st) == st # 404

\* verify_docker_tags.check_repos: what the loop does with one record
docker_check_step(repo, st) ==
  IF repo.container_repo # "" /\ ~verify_tag(st) THEN "return_false" ELSE "continue"

DockerInit ==
  /\ entry = "verify_docker_tags"
  /\ pc = "docker_check"
  /\ idx = 1
  /\ token = <<"g", "h", "p", "_", "a">>
  /\ now = <<>>
  /\ repos \in DockerLists
  /\ log = <<>>
  /\ hostTags = {}
  /\ hostRefs = {}
  /\ checkRet = <<>>
  /\ answers = <<>>
  /\ shown = <<>>
  /\ checked = [i \in 1..Len(repos) |-> <<>>]
  /\ publishRet = [i \in 1..Len(repos) |-> "none"]
  /\ tag_sha = ""
  /\ exitCode = "none"
  /\ MonitorIdle
  /\ registry \in [{repos[i].name : i \in 1..Len(repos)} -> ContainerStatuses]
  /\ vtag = <<"t">>
  /\ round = 2
  /\ verRet = <<>>
  /\ ReleaseIdle
  /\ config = repos
  /\ ManifestIdle
  /\ CommandIdle

\* verify_docker_tags.check_repos, lines 111-114: one record
DockerCheck ==
  /\ entry = "verify_docker_tags"
  /\ pc = "docker_check"
  /\ idx <= Len(repos)
  /\ LET repo == repos[idx]
         st == registry[repo.name]
     IN /\ log' = IF repo.container_repo # ""
                  THEN Append(log, Req("GET_container", repo.name, st,
                                       container_url(repo, vtag), ""))
                  ELSE log
        /\ IF docker_check_step(repo, st) = "return_false"
           THEN /\ verRet' = Append(verRet, "missing")
                /\ pc' = "docker_done"
                /\ UNCHANGED idx
           ELSE /\ idx' = idx + 1
                /\ UNCHANGED <<pc, verRet>>
  /\ UNCHANGED <<repos, exitCode, registry, vtag, round>>
  /\ UNCHANGED <<verFrame, monVars, relVars, extVars>>

\* verify_docker_tags.check_repos, line 115: return True
DockerCheckDone ==
  /\ entry = "verify_docker_tags"
  /\ pc = "docker_check"
  /\ idx > Len(repos)
  /\ verRet' = Append(verRet, "present")
  /\ pc' = "docker_done"
  /\ UNCHANGED <<idx, repos, log, exitCode, registry, vtag, round>>
  /\ UNCHANGED <<verFrame, monVars, relVars, extVars>>

\* the same records and the same registry answers are then given to
\* release_tool verify_containers
ThenVerifyContainers ==
  /\ entry = "verify_docker_tags"
  /\ pc = "docker_done"
  /\ entry' = "verify_containers"
  /\ pc' = "verify_containers"
  /\ idx' = 1
  /\ log' = <<>>
  /\ UNCHANGED <<repos, exitCode, registry, vtag, round, verRet>>
  /\ UNCHANGED <<token, now, hostTags, hostRefs, checkRet, answers, shown,
                 checked, publishRet, tag_sha>>
  /\ UNCHANGED <<monVars, relVars, extVars>>

DockerNext ==
  \/ DockerCheck
  \/ DockerCheckDone
  \/ ThenVerifyContainers
  \/ VerifyStart
  \/ FindContainer
  \/ VerifyDone

SpecDocker == DockerInit /\ [][DockerNext]_vars

\* C39: verify_docker_tags and the container verification of release_tool
\* are equivalent on DockerHub records: for the same records and the same
\* registry answers both reach the same verdict (all tags present / one
\* missing)
C39_SameVerdict ==
  Len(verRet) = 2 => (verRet[1] = "present" <=> verRet[2] = "passed")

----------------------------------------------------------------------------
(* Further properties of the standalone scripts *)

\* the request at k is a 200 from the commit-detail endpoint, sent by tag_repo
\* for the record called `name` and the commit `commit`
Confirmed(k, name, commit) ==
  /\ log[k].op = "GET_commit"
  /\ log[k].repo = name
  /\ log[k].status = 200
  /\ log[k].req.call = "tag_repo"
  /\ log[k].req.commit = commit

\* C40: in the three variants of tag_repo (ghlib, tag_releases, retag_commit)
\* no tag-object POST and no ref POST is sent for a record whose commit was
\* not confirmed by a 200 from the commit-detail endpoint earlier in the same
\* call
C40_PostOnlyAfterConfirmed ==
  \A k \in 1..Len(log) :
    /\ log[k].op = "POST_tag" =>
         /\ k > 1
         /\ Confirmed(k - 1, log[k].repo, log[k].req.object)
         /\ log[k].req.object # ""
    /\ log[k].op = "POST_ref" =>
         /\ k > 2
         /\ log[k - 1].op = "POST_tag" /\ log[k - 1].repo = log[k].repo
         /\ log[k - 1].status = 201
         /\ Confirmed(k - 2, log[k].repo, log[k - 1].req.object)

C40_Witness ==
  /\ entry = "retag"
  /\ Len(repos) = 2
  /\ pc = "exit" /\ exitCode = 0
  /\ Cardinality(Requests({"POST_ref"}, "repo1")) = 1
  /\ Cardinality(Requests({"POST_ref"}, "repo2")) = 1

C40_WitnessGhlib ==
  /\ entry = "ghlib.tag_repo"
  /\ pc = "returned"
  /\ publishRet[1] = "true"
  /\ Cardinality(Requests({"POST_ref"}, repos[1].name)) = 1

C40_WitnessTagReleases ==
  /\ entry = "tag_releases.tag_repo"
  /\ pc = "returned"
  /\ publishRet[1] = "true"
  /\ Cardinality(Requests({"POST_ref"}, repos[1].name)) = 1

====
